---------------------------- MODULE Spec2Model ----------------------------
(***************************************************************************)
(* Verification model of the storage-and-concurrency core of the BusTub    *)
(* teaching database (cmu15445-2021):                                      *)
(*   - LRUReplacer and BufferPoolManagerInstance   (specification SpecBP)  *)
(*   - ExtendibleHashTable over bucket pages       (specification SpecHT)  *)
(*   - LockManager with the transaction states     (specification SpecLM)  *)
(* Each specification moves only the variables of its own subsystem; the   *)
(* other variables keep their constructed values.                          *)
(***************************************************************************)
EXTENDS Integers, Sequences, FiniteSets, TLC

(***************************************************************************)
(* Bounds of the model.                                                    *)
(***************************************************************************)
\* pool_size_ given to the BufferPoolManagerInstance constructor
PoolSize == 2
\* page ids the pool may allocate: 0 .. MaxPageId - 1
MaxPageId == 3
\* page contents are 0 (zeroed) .. MaxData
MaxData == 1
\* cap on a frame's pin count
MaxPin == 2

\* hash index: keys are 0 .. MaxKey, values 0 .. MaxValue
MaxKey == 7
MaxValue == 1
\* slots of a bucket page (BUCKET_ARRAY_SIZE of the build)
BucketArraySize == 1
\* largest global depth the directory page is let to reach
MaxDepth == 3
\* bucket pages the hash index may allocate by NewPage after construction
MaxSplitPages == 4
\* Insert and Remove calls made on the hash index in one run
MaxOps == 5
\* stand-alone replacer: LRUReplacer(LruPages), called with frame ids 0 .. MaxFrame
LruPages == 2
\* parallel pool: NumInstances instances of InstancePoolSize frames, page ids below MaxPoolPageId
NumInstances == 2
InstancePoolSize == 1
MaxPoolPageId == 4
MaxFrame == 2
\* threads that call the buffer pool instance at the same time, MaxCalls calls each
NumThreads == 2
MaxCalls == 3
MaxHCKey == 3
MaxHCalls == 4
\* lock manager: record ids are 1 .. NumRids
NumRids == 1
\* transaction ids; 9 is the id LockExclusive compares against
TxnIds == {1, 2, 9}

INVALID_PAGE_ID == -1

FrameIds == 0 .. (PoolSize - 1)
PageIds == 0 .. (MaxPageId - 1)
Data == 0 .. MaxData
\* ids DiskManager::WritePage can be handed: page ids and (by FlushPg) frame ids
DiskIds == PageIds \cup FrameIds

Front(s) == s[1]
Back(s) == s[Len(s)]
PopFront(s) == SubSeq(s, 2, Len(s))
PopBack(s) == SubSeq(s, 1, Len(s) - 1)
SeqRemove(s, x) == SelectSeq(s, LAMBDA y : y # x)
SeqSet(s) == {s[i] : i \in 1 .. Len(s)}

VARIABLES
  \* ---- BufferPoolManagerInstance ----
  pages_,         \* frame id -> [page_id_, is_dirty_, pin_count_, data_]
  page_table_,    \* page id -> frame id, -1 when the page is not resident
  free_list_,     \* std::list<frame_id_t>, front first
  replacer_,      \* LRUReplacer: [list_unpinned_, map_frames_]
  next_page_id_,  \* next id AllocatePage hands out
  disk,           \* DiskManager: id -> contents last written under that id
  disk_writes,    \* every WritePage call so far: <<id passed, page id of the frame written>>
  \* ---- ExtendibleHashTable ----
  dir_page,       \* HashTableDirectoryPage: [global_depth_, local_depths_, bucket_page_ids_]
  bucket_pages,   \* page id -> HashTableBucketPage: slot -> [occupied, readable, key, value]
  ht_next_page,   \* page id the next NewPage of the index's buffer pool returns
  ht_ref,         \* reference multimap: the (key, value) pairs inserted and not removed since
  ht_ops,         \* number of Insert and Remove calls completed
  \* ---- LockManager and Transaction ----
  lock_table_,          \* rid -> LockRequestQueue: [request_queue_, upgrading_]
  txn_state_,           \* txn id -> TransactionState
  isolation_level_,     \* txn id -> IsolationLevel, "NONE" before the transaction begins
  shared_lock_set_,     \* txn id -> set of rids
  exclusive_lock_set_,  \* txn id -> set of rids
  txn_pc,               \* txn id -> where its thread is: idle, or blocked in cv_.wait of a method
  cv_woken,             \* threads in cv_.wait that a notify_all has reached
  lm_last,              \* the last stretch of a call that ran: [txn, op, rid, ret]
  lm_wounds,            \* <<caller, victim>> for every transaction a call set to ABORTED by wounding
  lm_shrunk,            \* transactions that have been in SHRINKING
  \* ---- an LRUReplacer called directly ----
  lru_r,          \* the replacer: [list_unpinned_, map_frames_]
  lru_ref,        \* reference queue: tracked frames, the most recently inserted first
  lru_last,       \* the last call: [op, frame_id, ret]; ret of Victim is the frame or -1
  lru_exp,        \* what the reference queue returns for the last call
  \* ---- ParallelBufferPoolManager ----
  bpm_is_,          \* instance index -> the fields of that BufferPoolManagerInstance
  pp_disk,          \* the DiskManager the instances share
  pp_disk_writes,   \* its WritePage calls
  last_alloc_idx_,  \* the round-robin cursor
  pp_alloc,         \* instance index -> the page ids its NewPage has returned, in order
  pp_last,          \* the last call: [op, start, probed, ret]
  \* ---- threads calling one BufferPoolManagerInstance at the same time ----
  thr,              \* thread -> [at, op, page_id, frame_id, pin, with, ret, calls]
  \* ---- a client of one BufferPoolManagerInstance that unpins what it pinned ----
  owed,             \* page id -> successful NewPage and FetchPage calls not yet matched by UnpinPage
  bal_last,         \* the client's last call: [op, page_id, ret]
  \* ---- threads calling one ExtendibleHashTable at the same time ----
  table_latch_,     \* ReaderWriterLatch of the table: [readers, writer]
  rwlatch_,         \* bucket page id -> ReaderWriterLatch of that Page: [readers, writer]
  hc_thr,           \* thread -> [at, op, key, value, page, i]: where it is in its call
  hc_calls          \* number of calls begun

bpvars == <<pages_, page_table_, free_list_, replacer_, next_page_id_, disk, disk_writes>>
htvars == <<dir_page, bucket_pages, ht_next_page, ht_ref, ht_ops>>
lmvars == <<lock_table_, txn_state_, isolation_level_, shared_lock_set_, exclusive_lock_set_,
            txn_pc, cv_woken, lm_last, lm_wounds, lm_shrunk>>
lruvars == <<lru_r, lru_ref, lru_last, lru_exp>>
ppvars == <<bpm_is_, pp_disk, pp_disk_writes, last_alloc_idx_, pp_alloc, pp_last>>
thrvars == <<thr>>
balvars == <<owed, bal_last>>
hcvars == <<table_latch_, rwlatch_, hc_thr, hc_calls>>
vars == <<bpvars, htvars, lmvars, lruvars, ppvars, thrvars, balvars, hcvars>>
\* the variables no operation of one component touches
OutsideBP == <<htvars, lmvars, lruvars, ppvars, thrvars, balvars, hcvars>>
OutsideHT == <<bpvars, lmvars, lruvars, ppvars, thrvars, balvars, hcvars>>
OutsideLM == <<bpvars, htvars, lruvars, ppvars, thrvars, balvars, hcvars>>
OutsideLRU == <<bpvars, htvars, lmvars, ppvars, thrvars, balvars, hcvars>>
OutsidePP == <<bpvars, htvars, lmvars, lruvars, thrvars, balvars, hcvars>>
OutsideBPC == <<htvars, lmvars, lruvars, ppvars, balvars, hcvars>>
OutsideBal == <<htvars, lmvars, lruvars, ppvars, thrvars, hcvars>>
OutsideHC == <<bpvars, lmvars, lruvars, ppvars, thrvars, balvars, ht_ref, ht_ops>>

(***************************************************************************)
(* LRUReplacer (lru_replacer.cpp).  list_unpinned_ is kept front first;    *)
(* map_frames_ is the set of keys of the position map.                     *)
(***************************************************************************)
LRUReplacerNew == [list_unpinned_ |-> << >>, map_frames_ |-> {}]

\* Victim: [ok, frame_id, r]
Victim(r) ==
  IF r.map_frames_ = {}
    THEN [ok |-> FALSE, frame_id |-> -1, r |-> r]
    ELSE LET f == Back(r.list_unpinned_)
         IN [ok |-> TRUE, frame_id |-> f,
             r |-> [list_unpinned_ |-> PopBack(r.list_unpinned_),
                    map_frames_ |-> r.map_frames_ \ {f}]]

Pin(r, frame_id) ==
  IF frame_id \notin r.map_frames_
    THEN r
    ELSE [list_unpinned_ |-> SeqRemove(r.list_unpinned_, frame_id),
          map_frames_ |-> r.map_frames_ \ {frame_id}]

Unpin(r, frame_id, pages_num_) ==
  IF frame_id \in r.map_frames_
    THEN r
    ELSE LET r1 == IF Cardinality(r.map_frames_) = pages_num_
                     THEN [list_unpinned_ |-> PopBack(r.list_unpinned_),
                           map_frames_ |-> r.map_frames_ \ {frame_id}]
                     ELSE r
         IN [list_unpinned_ |-> <<frame_id>> \o r1.list_unpinned_,
             map_frames_ |-> r1.map_frames_ \cup {frame_id}]

(***************************************************************************)
(* BufferPoolManagerInstance (buffer_pool_manager_instance.cpp).  The      *)
(* methods are operators on the record s of the instance's fields; each    *)
(* returns the new fields and the method's result.                         *)
(***************************************************************************)
BP == [pages_ |-> pages_, page_table_ |-> page_table_, free_list_ |-> free_list_,
       replacer_ |-> replacer_, next_page_id_ |-> next_page_id_,
       disk |-> disk, disk_writes |-> disk_writes,
       pool_size_ |-> PoolSize, num_instances_ |-> 1, instance_index_ |-> 0]

FindPage(s, page_id) == s.page_table_[page_id]

\* DiskManager::WritePage(id, bytes) as called for the bytes of frame frame_id
WritePage(s, id, frame_id) ==
  [s EXCEPT !.disk[id] = s.pages_[frame_id].data_,
            !.disk_writes = @ \cup {<<id, s.pages_[frame_id].page_id_>>}]

\* FlushPg writes the frame of page_id, if dirty, under the id it passes to WritePage
FlushPg(s, page_id) ==
  LET frame_id == FindPage(s, page_id)
  IN IF s.pages_[frame_id].is_dirty_ THEN WritePage(s, frame_id, frame_id) ELSE s

FlushPgImp(s, page_id) ==
  IF FindPage(s, page_id) = -1
    THEN [s |-> s, ret |-> FALSE]
    ELSE LET s1 == FlushPg(s, page_id)
         IN [s |-> [s1 EXCEPT !.pages_[FindPage(s, page_id)].is_dirty_ = FALSE],
             ret |-> FALSE]

\* FindFreshPage without page_table_.erase(page_id) for the victim's page: the variant
\* under which the page table stops being one-to-one
FindFreshPage_KeepMapping(s) ==
  IF s.free_list_ # << >>
    THEN [s |-> [s EXCEPT !.free_list_ = PopFront(s.free_list_)],
          frame_id |-> Front(s.free_list_)]
    ELSE LET v == Victim(s.replacer_)
         IN IF v.ok
              THEN LET frame_id == v.frame_id
                       page_id == s.pages_[frame_id].page_id_
                       s1 == [s EXCEPT !.replacer_ = v.r]
                       s2 == IF page_id # INVALID_PAGE_ID THEN FlushPgImp(s1, page_id).s ELSE s1
                   IN [s |-> [s2 EXCEPT !.pages_[frame_id].is_dirty_ = FALSE],
                       frame_id |-> frame_id]
              ELSE [s |-> s, frame_id |-> -1]

\* FindFreshPage: [s, frame_id], frame_id = -1 when there is none
FindFreshPage(s) ==
  IF s.free_list_ # << >>
    THEN [s |-> [s EXCEPT !.free_list_ = PopFront(s.free_list_)],
          frame_id |-> Front(s.free_list_)]
    ELSE LET v == Victim(s.replacer_)
         IN IF v.ok
              THEN LET frame_id == v.frame_id
                       page_id == s.pages_[frame_id].page_id_
                       s1 == [s EXCEPT !.replacer_ = v.r]
                       s2 == IF page_id # INVALID_PAGE_ID THEN FlushPgImp(s1, page_id).s ELSE s1
                       s3 == IF page_id # INVALID_PAGE_ID
                               THEN [s2 EXCEPT !.page_table_[page_id] = -1]
                               ELSE s2
                   IN [s |-> [s3 EXCEPT !.pages_[frame_id].is_dirty_ = FALSE],
                       frame_id |-> frame_id]
              ELSE [s |-> s, frame_id |-> -1]

\* AllocatePage advancing by one instead of by num_instances_: the variant under which
\* the instances of a pool hand out each other's page ids
AllocatePage_ByOne(s) == [s EXCEPT !.next_page_id_ = @ + 1]

\* AllocatePage: the id handed out is s.next_page_id_
AllocatePage(s) == [s EXCEPT !.next_page_id_ = @ + s.num_instances_]

\* NewPgImp: [s, page_id, ok]
NewPgImp(s) ==
  LET ff == FindFreshPage(s)
      frame_id == ff.frame_id
  IN IF frame_id = -1
       THEN [s |-> s, page_id |-> INVALID_PAGE_ID, ok |-> FALSE]
       ELSE LET page_id == ff.s.next_page_id_
                s1 == AllocatePage(ff.s)
            IN [s |-> [s1 EXCEPT !.pages_[frame_id].pin_count_ = @ + 1,
                                 !.pages_[frame_id].page_id_ = page_id,
                                 !.page_table_[page_id] = frame_id,
                                 !.pages_[frame_id].data_ = 0],
                page_id |-> page_id, ok |-> TRUE]

\* FetchPgImp: [s, frame_id], frame_id = -1 for nullptr
FetchPgImp(s, page_id) ==
  LET frame_id == FindPage(s, page_id)
  IN IF frame_id # -1
       THEN [s |-> [s EXCEPT !.replacer_ = Pin(s.replacer_, frame_id),
                             !.pages_[frame_id].pin_count_ = @ + 1,
                             !.pages_[frame_id].is_dirty_ = TRUE],
             frame_id |-> frame_id]
       ELSE LET ff == FindFreshPage(s)
                fr == ff.frame_id
            IN IF fr = -1
                 THEN [s |-> s, frame_id |-> -1]
                 ELSE [s |-> [ff.s EXCEPT !.page_table_[page_id] = fr,
                                          !.replacer_ = Pin(ff.s.replacer_, fr),
                                          !.pages_[fr].page_id_ = page_id,
                                          !.pages_[fr].pin_count_ = @ + 1,
                                          !.pages_[fr].is_dirty_ = FALSE,
                                          !.pages_[fr].data_ = ff.s.disk[page_id]],
                       frame_id |-> fr]

\* DeletePgImp without the test of the pin count: the variant under which a page in use
\* is deleted
DeletePgImp_IgnoresPin(s, page_id) ==
  LET frame_id == FindPage(s, page_id)
  IN IF frame_id # -1
       THEN [s |-> [s EXCEPT !.page_table_[page_id] = -1,
                             !.pages_[frame_id].page_id_ = INVALID_PAGE_ID,
                             !.pages_[frame_id].is_dirty_ = FALSE,
                             !.pages_[frame_id].data_ = 0,
                             !.free_list_ = Append(@, frame_id)],
             ret |-> TRUE]
       ELSE [s |-> s, ret |-> TRUE]

\* DeletePgImp without page_id_ = INVALID_PAGE_ID: the variant under which a frame of
\* the free list still names the deleted page
DeletePgImp_KeepsPageId(s, page_id) ==
  LET frame_id == FindPage(s, page_id)
  IN IF frame_id # -1
       THEN IF s.pages_[frame_id].pin_count_ # 0
              THEN [s |-> s, ret |-> FALSE]
              ELSE [s |-> [s EXCEPT !.page_table_[page_id] = -1,
                                    !.pages_[frame_id].is_dirty_ = FALSE,
                                    !.pages_[frame_id].data_ = 0,
                                    !.free_list_ = Append(@, frame_id)],
                    ret |-> TRUE]
       ELSE [s |-> s, ret |-> TRUE]

\* DeletePgImp: [s, ret]
DeletePgImp(s, page_id) ==
  LET frame_id == FindPage(s, page_id)
  IN IF frame_id # -1
       THEN IF s.pages_[frame_id].pin_count_ # 0
              THEN [s |-> s, ret |-> FALSE]
              ELSE [s |-> [s EXCEPT !.page_table_[page_id] = -1,
                                    !.pages_[frame_id].page_id_ = INVALID_PAGE_ID,
                                    !.pages_[frame_id].is_dirty_ = FALSE,
                                    !.pages_[frame_id].data_ = 0,
                                    !.free_list_ = Append(@, frame_id)],
                    ret |-> TRUE]
       ELSE [s |-> s, ret |-> TRUE]

\* UnpinPgImp: [s, ret]
UnpinPgImp(s, page_id, is_dirty) ==
  LET frame_id == FindPage(s, page_id)
  IN IF frame_id = -1 \/ s.pages_[frame_id].pin_count_ = 0
       THEN [s |-> s, ret |-> FALSE]
       ELSE LET s1 == [s EXCEPT !.pages_[frame_id].is_dirty_ = is_dirty,
                                !.pages_[frame_id].pin_count_ = @ - 1]
            IN IF s1.pages_[frame_id].pin_count_ = 0
                 THEN [s |-> FlushPg([s1 EXCEPT !.replacer_ = Unpin(@, frame_id, s.pool_size_)],
                                     page_id),
                       ret |-> TRUE]
                 ELSE [s |-> s1, ret |-> TRUE]

BPSet(s) ==
  /\ pages_' = s.pages_
  /\ page_table_' = s.page_table_
  /\ free_list_' = s.free_list_
  /\ replacer_' = s.replacer_
  /\ next_page_id_' = s.next_page_id_
  /\ disk' = s.disk
  /\ disk_writes' = s.disk_writes
  /\ UNCHANGED OutsideBP

\* NewPage: AllocatePage is capped at MaxPageId ids
NewPage ==
  /\ next_page_id_ < MaxPageId
  /\ BPSet(NewPgImp(BP).s)

\* FetchPage of a page id that AllocatePage has handed out
FetchPage ==
  \E page_id \in PageIds :
    /\ page_id < next_page_id_
    /\ FindPage(BP, page_id) # -1 => pages_[FindPage(BP, page_id)].pin_count_ < MaxPin
    /\ BPSet(FetchPgImp(BP, page_id).s)

UnpinPage ==
  \E page_id \in PageIds, is_dirty \in BOOLEAN :
    /\ page_id < next_page_id_
    /\ BPSet(UnpinPgImp(BP, page_id, is_dirty).s)

FlushPage ==
  \E page_id \in PageIds :
    /\ page_id < next_page_id_
    /\ BPSet(FlushPgImp(BP, page_id).s)

DeletePage ==
  \E page_id \in PageIds :
    /\ page_id < next_page_id_
    /\ BPSet(DeletePgImp(BP, page_id).s)

\* A holder of a pinned page writes into the frame through Page::GetData()
ModifyPage ==
  \E f \in FrameIds, d \in Data :
    /\ pages_[f].pin_count_ > 0
    /\ pages_[f].page_id_ # INVALID_PAGE_ID
    /\ pages_' = [pages_ EXCEPT ![f].data_ = d]
    /\ UNCHANGED <<page_table_, free_list_, replacer_, next_page_id_, disk, disk_writes>>
    /\ UNCHANGED OutsideBP

BPNext ==
  \/ NewPage
  \/ FetchPage
  \/ UnpinPage
  \/ FlushPage
  \/ DeletePage
  \/ ModifyPage

(***************************************************************************)
(* HashTableBucketPage (hash_table_bucket_page.cpp).  A bucket page is a   *)
(* function from slot index to [occupied, readable, key, value]; a page    *)
(* fresh from NewPage is zeroed.                                           *)
(***************************************************************************)
Keys == 0 .. MaxKey
Values == 0 .. MaxValue
Slots == 0 .. (BucketArraySize - 1)
ZeroSlot == [occupied |-> FALSE, readable |-> FALSE, key |-> 0, value |-> 0]
ZeroBucket == [i \in Slots |-> ZeroSlot]

IsReadable(b, i) == b[i].readable
IsOccupied(b, i) == b[i].occupied
KeyAt(b, i) == b[i].key
ValueAt(b, i) == b[i].value
NumReadable(b) == Cardinality({i \in Slots : IsReadable(b, i)})
IsFull(b) == NumReadable(b) = BucketArraySize
IsEmpty(b) == NumReadable(b) = 0
RemoveAt(b, i) == [b EXCEPT ![i].occupied = TRUE, ![i].readable = FALSE]

\* GetValue scans from slot 0 and stops at the first slot that is neither
\* readable nor occupied; the result is the vector of matching values
RECURSIVE BucketScan(_, _, _)
BucketScan(b, key, i) ==
  IF i >= BucketArraySize THEN << >>
  ELSE IF ~IsReadable(b, i)
         THEN IF ~IsOccupied(b, i) THEN << >> ELSE BucketScan(b, key, i + 1)
         ELSE IF KeyAt(b, i) = key
                THEN <<ValueAt(b, i)>> \o BucketScan(b, key, i + 1)
                ELSE BucketScan(b, key, i + 1)

BucketGetValue(b, key) == BucketScan(b, key, 0)

\* Insert: [b, ret]
BucketInsert(b, key, value) ==
  IF IsFull(b) THEN [b |-> b, ret |-> FALSE]
  ELSE IF value \in SeqSet(BucketGetValue(b, key)) THEN [b |-> b, ret |-> FALSE]
  ELSE LET i == CHOOSE j \in Slots :
                  ~IsReadable(b, j) /\ \A k \in Slots : k < j => IsReadable(b, k)
       IN [b |-> [b EXCEPT ![i] = [occupied |-> TRUE, readable |-> TRUE,
                                   key |-> key, value |-> value]],
           ret |-> TRUE]

\* Remove: [b, ret]
BucketRemove(b, key, value) ==
  LET hit == {i \in Slots : IsReadable(b, i) /\ KeyAt(b, i) = key /\ ValueAt(b, i) = value}
  IN IF hit = {} THEN [b |-> b, ret |-> FALSE]
     ELSE LET i == CHOOSE j \in hit : \A k \in hit : j <= k
          IN [b |-> [b EXCEPT ![i].readable = FALSE], ret |-> TRUE]

(***************************************************************************)
(* HashTableDirectoryPage.  Its implementation file is not among the       *)
(* sources; the operations are modelled from the specification's data      *)
(* model and glossary and from how extendible_hash_table.cpp calls them.    *)
(***************************************************************************)
Pow(base, power) == base ^ power
DirectoryArraySize == Pow(2, MaxDepth)
DirSlots == 0 .. (DirectoryArraySize - 1)

GetGlobalDepth(d) == d.global_depth_
GetGlobalDepthMask(d) == Pow(2, d.global_depth_) - 1
Size(d) == Pow(2, d.global_depth_)
GetLocalDepth(d, i) == d.local_depths_[i]
GetBucketPageId(d, i) == d.bucket_page_ids_[i]
SetBucketPageId(d, i, page_id) == [d EXCEPT !.bucket_page_ids_[i] = page_id]
SetLocalDepth(d, i, depth) == [d EXCEPT !.local_depths_[i] = depth]
IncrLocalDepth(d, i) == [d EXCEPT !.local_depths_[i] = @ + 1]
DecrLocalDepth(d, i) == [d EXCEPT !.local_depths_[i] = @ - 1]
IncrGlobalDepth(d) == [d EXCEPT !.global_depth_ = @ + 1]
DecrGlobalDepth(d) == [d EXCEPT !.global_depth_ = @ - 1]
\* x & (2^bits - 1)
LowBits(x, bits) == x % Pow(2, bits)
\* x ^ (1 << bit)
FlipBit(x, bit) ==
  IF (x \div Pow(2, bit)) % 2 = 1 THEN x - Pow(2, bit) ELSE x + Pow(2, bit)
\* split image of slot i: i ^ (1 << (local_depth[i] - 1))
GetSplitImageIndex(d, i) == FlipBit(i, GetLocalDepth(d, i) - 1)
\* the directory may shrink iff every local depth is strictly less than the global depth
CanShrink(d) == \A i \in 0 .. (Size(d) - 1) : GetLocalDepth(d, i) < GetGlobalDepth(d)

(***************************************************************************)
(* ExtendibleHashTable (extendible_hash_table.cpp).  The index's pages     *)
(* live in a buffer pool large enough that NewPage and FetchPage never     *)
(* fail and no page of the index is evicted; h is the record               *)
(* [dir, buckets, next] of the directory page, the bucket pages and the    *)
(* page id the pool allocates next.                                        *)
(***************************************************************************)
\* hash_fn_.GetHash: a 64-bit hash, as its upper and lower 32-bit halves
GetHash(key) == [hi |-> key + 1, lo |-> key]
\* Hash: the downcast to uint32_t keeps the lower half
Hash(key) == GetHash(key).lo
KeyToDirectoryIndex(key, d) == LowBits(Hash(key), GetGlobalDepth(d))
KeyToPageId(key, d) == GetBucketPageId(d, KeyToDirectoryIndex(key, d))

HT == [dir |-> dir_page, buckets |-> bucket_pages, next |-> ht_next_page]

\* page ids: 0 the directory page, 1 and 2 the two initial buckets
DIRECTORY_PAGE_ID == 0
FirstSplitPage == 3
BucketPageIds == 1 .. (FirstSplitPage + MaxSplitPages - 1)

\* GetValue: the vector of values found for key
GetValue(h, key) == BucketGetValue(h.buckets[KeyToPageId(key, h.dir)], key)

\* the rehash loop of SplitInsert, from slot num_read on: [old, split]
RECURSIVE Rehash(_, _, _, _, _)
Rehash(old, split, num_read, local_depth, split_bucket_idx) ==
  IF num_read >= BucketArraySize THEN [old |-> old, split |-> split]
  ELSE LET which_bucket == LowBits(Hash(KeyAt(old, num_read)), local_depth)
       IN IF which_bucket = split_bucket_idx
            THEN Rehash(RemoveAt(old, num_read),
                        BucketInsert(split, KeyAt(old, num_read), ValueAt(old, num_read)).b,
                        num_read + 1, local_depth, split_bucket_idx)
            ELSE Rehash(old, split, num_read + 1, local_depth, split_bucket_idx)

\* the loop of SplitInsert that re-points the slots from 2^old_global_depth on
RECURSIVE Redirect(_, _, _, _)
Redirect(d, i, old_global_depth, split_bucket_idx) ==
  IF i >= Size(d) THEN d
  ELSE IF i = split_bucket_idx THEN Redirect(d, i + 1, old_global_depth, split_bucket_idx)
  ELSE LET redirect_bucket_idx == LowBits(i, old_global_depth)
           d1 == SetBucketPageId(d, i, GetBucketPageId(d, redirect_bucket_idx))
           d2 == SetLocalDepth(d1, i, GetLocalDepth(d1, redirect_bucket_idx))
       IN Redirect(d2, i + 1, old_global_depth, split_bucket_idx)

\* one pass of the body of SplitInsert's loop on a full bucket
SplitBucket(h, key) ==
  LET d0 == h.dir
      old_global_depth == GetGlobalDepth(d0)
      bucket_idx == KeyToDirectoryIndex(key, d0)
      bucket_page_id == KeyToPageId(key, d0)
      d1 == IF GetLocalDepth(d0, bucket_idx) = GetGlobalDepth(d0)
              THEN IncrGlobalDepth(d0) ELSE d0
      d2 == IncrLocalDepth(d1, bucket_idx)
      split_bucket_idx == GetSplitImageIndex(d2, bucket_idx)
      split_page_id == h.next
      d3 == SetBucketPageId(d2, split_bucket_idx, split_page_id)
      d4 == SetLocalDepth(d3, split_bucket_idx, GetLocalDepth(d3, bucket_idx))
      rh == Rehash(h.buckets[bucket_page_id], ZeroBucket, 0,
                   GetLocalDepth(d4, bucket_idx), split_bucket_idx)
      d5 == Redirect(d4, Pow(2, old_global_depth), old_global_depth, split_bucket_idx)
  IN [dir |-> d5,
      buckets |-> [h.buckets EXCEPT ![bucket_page_id] = rh.old, ![split_page_id] = rh.split],
      next |-> h.next + 1]

\* a split of key's bucket that keeps the global depth within MAX_DEPTH (MaxDepth here)
DepthAllows(h, key) ==
  GetLocalDepth(h.dir, KeyToDirectoryIndex(key, h.dir)) = GetGlobalDepth(h.dir)
    => GetGlobalDepth(h.dir) < MaxDepth

\* a split the model's bounds leave room for: one more page, and one more level
\* of the directory when the bucket is at the global depth
CanSplit(h, key) ==
  /\ h.next \in BucketPageIds
  /\ DepthAllows(h, key)

\* SplitInsert: [h, ret, done, overflow]; done is FALSE when the loop needs a split that
\* the bounds have no room for, overflow is TRUE when that split is one that takes the
\* global depth past MAX_DEPTH: the loop has no exit there, it goes on to write past
\* the directory's arrays
RECURSIVE SplitInsert(_, _, _)
SplitInsert(h, key, value) ==
  LET bucket_page_id == KeyToPageId(key, h.dir)
  IN IF IsFull(h.buckets[bucket_page_id])
       THEN IF CanSplit(h, key)
              THEN SplitInsert(SplitBucket(h, key), key, value)
              ELSE [h |-> h, ret |-> FALSE, done |-> FALSE, overflow |-> ~DepthAllows(h, key)]
       ELSE LET r == BucketInsert(h.buckets[bucket_page_id], key, value)
            IN [h |-> [h EXCEPT !.buckets[bucket_page_id] = r.b], ret |-> r.ret, done |-> TRUE,
                overflow |-> FALSE]

\* Insert: [h, ret, done, overflow]
Insert(h, key, value) ==
  LET bucket_page_id == KeyToPageId(key, h.dir)
  IN IF IsFull(h.buckets[bucket_page_id])
       THEN SplitInsert(h, key, value)
       ELSE LET r == BucketInsert(h.buckets[bucket_page_id], key, value)
            IN [h |-> [h EXCEPT !.buckets[bucket_page_id] = r.b], ret |-> r.ret, done |-> TRUE,
                overflow |-> FALSE]

\* the loop of Merge that re-points the slots of the two merged buckets
RECURSIVE MergeRepoint(_, _, _, _, _, _)
MergeRepoint(d, j, i, split_bucket_idx, bucket_page_id, new_bucket_page_id) ==
  IF j >= Size(d) THEN d
  ELSE IF j = i \/ j = split_bucket_idx
         THEN MergeRepoint(d, j + 1, i, split_bucket_idx, bucket_page_id, new_bucket_page_id)
  ELSE LET cur_bucket_page_id == GetBucketPageId(d, j)
           d1 == IF cur_bucket_page_id = bucket_page_id \/ cur_bucket_page_id = new_bucket_page_id
                   THEN SetBucketPageId(SetLocalDepth(d, j, GetLocalDepth(d, i)),
                                        j, new_bucket_page_id)
                   ELSE d
       IN MergeRepoint(d1, j + 1, i, split_bucket_idx, bucket_page_id, new_bucket_page_id)

\* the body of Merge's scan for slot i without DecrLocalDepth of the split image: the
\* variant under which the two slots of a merged bucket disagree on its local depth
MergeSlot_KeepsImageDepth(h, i) ==
  LET d == h.dir
      old_local_depth == GetLocalDepth(d, i)
      bucket_page_id == GetBucketPageId(d, i)
  IN IF old_local_depth > 1 /\ IsEmpty(h.buckets[bucket_page_id])
       THEN LET split_bucket_idx == GetSplitImageIndex(d, i)
                d1 == IF GetLocalDepth(d, split_bucket_idx) = old_local_depth
                        THEN LET a == DecrLocalDepth(d, i)
                                 c == SetBucketPageId(a, i, GetBucketPageId(a, split_bucket_idx))
                             IN MergeRepoint(c, 0, i, split_bucket_idx, bucket_page_id,
                                             GetBucketPageId(c, i))
                        ELSE d
                d2 == IF CanShrink(d1) THEN DecrGlobalDepth(d1) ELSE d1
            IN [h EXCEPT !.dir = d2]
       ELSE h

\* the body of Merge's scan for slot i
MergeSlot(h, i) ==
  LET d == h.dir
      old_local_depth == GetLocalDepth(d, i)
      bucket_page_id == GetBucketPageId(d, i)
  IN IF old_local_depth > 1 /\ IsEmpty(h.buckets[bucket_page_id])
       THEN LET split_bucket_idx == GetSplitImageIndex(d, i)
                d1 == IF GetLocalDepth(d, split_bucket_idx) = old_local_depth
                        THEN LET a == DecrLocalDepth(d, i)
                                 b == DecrLocalDepth(a, split_bucket_idx)
                                 c == SetBucketPageId(b, i, GetBucketPageId(b, split_bucket_idx))
                             IN MergeRepoint(c, 0, i, split_bucket_idx, bucket_page_id,
                                             GetBucketPageId(c, i))
                        ELSE d
                d2 == IF CanShrink(d1) THEN DecrGlobalDepth(d1) ELSE d1
            IN [h EXCEPT !.dir = d2]
       ELSE h

\* Merge: the scan over the directory slots, whose number is read again each round
RECURSIVE MergeFrom(_, _)
MergeFrom(h, i) ==
  IF i >= Size(h.dir) THEN h ELSE MergeFrom(MergeSlot(h, i), i + 1)

Merge(h) == MergeFrom(h, 0)

\* Remove up to the call of Merge: [h, ret, merge, bucket_page_id]; merge tells whether
\* Remove, the table latch and the bucket latch released, goes on to call Merge
RemoveUntilMerge(h, key, value) ==
  LET bucket_page_id == KeyToPageId(key, h.dir)
      r == BucketRemove(h.buckets[bucket_page_id], key, value)
  IN [h |-> [h EXCEPT !.buckets[bucket_page_id] = r.b], ret |-> r.ret,
      merge |-> r.ret /\ IsEmpty(r.b), bucket_page_id |-> bucket_page_id]

\* Remove: [h, ret]
Remove(h, key, value) ==
  LET bucket_page_id == KeyToPageId(key, h.dir)
      r == BucketRemove(h.buckets[bucket_page_id], key, value)
      h1 == [h EXCEPT !.buckets[bucket_page_id] = r.b]
  IN IF r.ret /\ IsEmpty(r.b)
       THEN [h |-> Merge(h1), ret |-> r.ret]
       ELSE [h |-> h1, ret |-> r.ret]


(***************************************************************************)
(* LockManager (lock_manager.cpp) and the Transaction fields it uses.      *)
(* Every transaction runs on a thread of its own.  A call holds latch_     *)
(* from its first statement to its return or to cv_.wait, so each action   *)
(* below is one such stretch; a thread blocked in cv_.wait runs again,     *)
(* from the label the code jumps to, after a notify_all on that queue.     *)
(* The methods are operators on the record m of the lock manager's and     *)
(* the transactions' fields.                                               *)
(***************************************************************************)
RIDs == 1 .. NumRids
IsolationLevels == {"READ_UNCOMMITTED", "READ_COMMITTED", "REPEATABLE_READ"}
LockRequest(txn_id, lock_mode) ==
  [txn_id_ |-> txn_id, lock_mode_ |-> lock_mode, granted_ |-> FALSE]
LockRequestQueueNew == [request_queue_ |-> << >>, upgrading_ |-> -1]

LM == [lock_table_ |-> lock_table_, state_ |-> txn_state_,
       shared_lock_set_ |-> shared_lock_set_, exclusive_lock_set_ |-> exclusive_lock_set_,
       wounds |-> lm_wounds]

IsSharedLocked(m, t, rid) == rid \in m.shared_lock_set_[t]
IsExclusiveLocked(m, t, rid) == rid \in m.exclusive_lock_set_[t]
SetState(m, t, st) == [m EXCEPT !.state_[t] = st]
EraseAt(q, i) == SubSeq(q, 1, i - 1) \o SubSeq(q, i + 1, Len(q))

\* InsertTransIntoLockQueue on the queue of rid
InsertTransIntoLockQueue(m, rid, txn_id, lock_mode) ==
  LET q == m.lock_table_[rid].request_queue_
      hit == {i \in 1 .. Len(q) : q[i].txn_id_ = txn_id}
  IN IF hit # {}
       THEN LET i == CHOOSE j \in hit : \A k \in hit : j <= k
            IN [m EXCEPT !.lock_table_[rid].request_queue_[i].granted_ = (lock_mode = "EXCLUSIVE")]
       ELSE [m EXCEPT !.lock_table_[rid].request_queue_ = Append(q, LockRequest(txn_id, lock_mode))]

\* a wound that erases the queue entry and the lock sets but leaves the wounded
\* transaction's state as it was
Wound_NoAbort(m, t, rid, i) ==
  LET trans == m.lock_table_[rid].request_queue_[i].txn_id_
  IN [m EXCEPT !.lock_table_[rid].request_queue_ = EraseAt(@, i),
               !.exclusive_lock_set_[trans] = @ \ {rid},
               !.shared_lock_set_[trans] = @ \ {rid},
               !.wounds = @ \cup {<<t, trans>>}]

\* the wound every lock method applies to the queue entry at position i: the entry is
\* erased, its transaction loses rid from both lock sets and becomes ABORTED
Wound(m, t, rid, i) ==
  LET trans == m.lock_table_[rid].request_queue_[i].txn_id_
  IN [m EXCEPT !.lock_table_[rid].request_queue_ = EraseAt(@, i),
               !.exclusive_lock_set_[trans] = @ \ {rid},
               !.shared_lock_set_[trans] = @ \ {rid},
               !.state_[trans] = "ABORTED",
               !.wounds = @ \cup {<<t, trans>>}]

\* the queue scan of LockShared from position i: [m, ret], ret is "true", "false", or "wait" for cv_.wait
RECURSIVE SharedScan(_, _, _, _)
SharedScan(m, t, rid, i) ==
  LET q == m.lock_table_[rid].request_queue_
  IN IF i > Len(q)
       THEN LET m1 == SetState(m, t, "GROWING")
                m2 == InsertTransIntoLockQueue(m1, rid, t, "SHARED")
            IN [m |-> [m2 EXCEPT !.shared_lock_set_[t] = @ \cup {rid}], ret |-> "true"]
       ELSE IF q[i].txn_id_ > t /\ IsExclusiveLocked(m, q[i].txn_id_, rid)
              THEN SharedScan(Wound(m, t, rid, i), t, rid, i)
       ELSE IF q[i].txn_id_ < t /\ IsExclusiveLocked(m, q[i].txn_id_, rid)
              THEN LET m1 == InsertTransIntoLockQueue(m, rid, t, "SHARED")
                   IN [m |-> [m1 EXCEPT !.shared_lock_set_[t] = @ \cup {rid}], ret |-> "wait"]
       ELSE SharedScan(m, t, rid, i + 1)

\* LockShared without the test of SHRINKING: the variant under which a transaction
\* takes a shared lock after its first Unlock
LockShared_NoShrinkingTest(m, t, rid, iso) ==
  IF m.state_[t] = "ABORTED" THEN [m |-> m, ret |-> "false"]
  ELSE IF iso = "READ_UNCOMMITTED" THEN [m |-> SetState(m, t, "ABORTED"), ret |-> "false"]
  ELSE IF IsSharedLocked(m, t, rid) THEN [m |-> m, ret |-> "true"]
  ELSE SharedScan(m, t, rid, 1)

\* LockShared from the label ShareCheck: [m, ret]
LockShared(m, t, rid, iso) ==
  IF m.state_[t] = "ABORTED" THEN [m |-> m, ret |-> "false"]
  ELSE IF iso = "READ_UNCOMMITTED" THEN [m |-> SetState(m, t, "ABORTED"), ret |-> "false"]
  ELSE IF m.state_[t] = "SHRINKING" THEN [m |-> SetState(m, t, "ABORTED"), ret |-> "false"]
  ELSE IF IsSharedLocked(m, t, rid) THEN [m |-> m, ret |-> "true"]
  ELSE SharedScan(m, t, rid, 1)

\* the queue scan of LockExclusive from position i: [m, ret]
RECURSIVE ExclusiveScan(_, _, _, _)
ExclusiveScan(m, t, rid, i) ==
  LET q == m.lock_table_[rid].request_queue_
  IN IF i > Len(q)
       THEN LET m1 == SetState(m, t, "GROWING")
                m2 == InsertTransIntoLockQueue(m1, rid, t, "SHARED")
            IN [m |-> [m2 EXCEPT !.exclusive_lock_set_[t] = @ \cup {rid}], ret |-> "true"]
       ELSE IF q[i].txn_id_ > t \/ t = 9
              THEN ExclusiveScan(Wound(m, t, rid, i), t, rid, i)
       ELSE IF q[i].txn_id_ < t
              THEN [m |-> [m EXCEPT !.exclusive_lock_set_[t] = @ \ {rid},
                                    !.shared_lock_set_[t] = @ \ {rid},
                                    !.state_[t] = "ABORTED"],
                    ret |-> "false"]
       ELSE ExclusiveScan(m, t, rid, i + 1)

\* LockExclusive without the test of SHRINKING under REPEATABLE_READ: the variant
\* under which a transaction locks again after its first Unlock
LockExclusive_NoShrinkingTest(m, t, rid, iso) ==
  IF m.state_[t] = "ABORTED" THEN [m |-> m, ret |-> "false"]
  ELSE IF IsExclusiveLocked(m, t, rid) THEN [m |-> m, ret |-> "true"]
  ELSE ExclusiveScan(m, t, rid, 1)

\* LockExclusive with the test of SHRINKING made at every isolation level: the variant
\* under which the weaker levels cannot lock again after an Unlock
LockExclusive_ShrinkingAnyLevel(m, t, rid, iso) ==
  IF m.state_[t] = "ABORTED" THEN [m |-> m, ret |-> "false"]
  ELSE IF m.state_[t] = "SHRINKING"
         THEN [m |-> SetState(m, t, "ABORTED"), ret |-> "false"]
  ELSE IF IsExclusiveLocked(m, t, rid) THEN [m |-> m, ret |-> "true"]
  ELSE ExclusiveScan(m, t, rid, 1)

\* LockExclusive: [m, ret]
LockExclusive(m, t, rid, iso) ==
  IF m.state_[t] = "ABORTED" THEN [m |-> m, ret |-> "false"]
  ELSE IF m.state_[t] = "SHRINKING" /\ iso = "REPEATABLE_READ"
         THEN [m |-> SetState(m, t, "ABORTED"), ret |-> "false"]
  ELSE IF IsExclusiveLocked(m, t, rid) THEN [m |-> m, ret |-> "true"]
  ELSE ExclusiveScan(m, t, rid, 1)

\* the queue scan of LockUpgrade without the wound: the variant under which the caller
\* waits behind every other transaction of the queue, the younger ones too
RECURSIVE UpgradeScan_NoWound(_, _, _, _)
UpgradeScan_NoWound(m, t, rid, i) ==
  LET q == m.lock_table_[rid].request_queue_
  IN IF i > Len(q)
       THEN LET m1 == SetState(m, t, "GROWING")
                m2 == IF q # << >>
                        THEN [m1 EXCEPT !.lock_table_[rid].request_queue_[1].lock_mode_ = "EXCLUSIVE"]
                        ELSE m1
            IN [m |-> [m2 EXCEPT !.shared_lock_set_[t] = @ \ {rid},
                                 !.exclusive_lock_set_[t] = @ \cup {rid},
                                 !.lock_table_[rid].upgrading_ = -1],
                ret |-> "true"]
       ELSE IF q[i].txn_id_ # t
              THEN [m |-> m, ret |-> "wait"]
       ELSE UpgradeScan_NoWound(m, t, rid, i + 1)

\* the queue scan of LockUpgrade from position i: [m, ret], ret is "true", "false", or "wait" for cv_.wait
RECURSIVE UpgradeScan(_, _, _, _)
UpgradeScan(m, t, rid, i) ==
  LET q == m.lock_table_[rid].request_queue_
  IN IF i > Len(q)
       THEN LET m1 == SetState(m, t, "GROWING")
                \* request_queue_.front(): the queue holds the caller's entry here
                m2 == IF q # << >>
                        THEN [m1 EXCEPT !.lock_table_[rid].request_queue_[1].lock_mode_ = "EXCLUSIVE"]
                        ELSE m1
            IN [m |-> [m2 EXCEPT !.shared_lock_set_[t] = @ \ {rid},
                                 !.exclusive_lock_set_[t] = @ \cup {rid},
                                 !.lock_table_[rid].upgrading_ = -1],
                ret |-> "true"]
       ELSE IF q[i].txn_id_ > t
              THEN UpgradeScan(Wound(m, t, rid, i), t, rid, i)
       ELSE IF q[i].txn_id_ < t
              THEN [m |-> m, ret |-> "wait"]
       ELSE UpgradeScan(m, t, rid, i + 1)

\* LockUpgrade from the label upgCheck: [m, ret]
LockUpgrade(m, t, rid, iso) ==
  IF m.state_[t] = "ABORTED" THEN [m |-> m, ret |-> "false"]
  ELSE IF m.state_[t] = "SHRINKING" /\ iso = "REPEATABLE_READ"
         THEN [m |-> SetState(m, t, "ABORTED"), ret |-> "false"]
  ELSE IF m.lock_table_[rid].upgrading_ = 1
         THEN [m |-> SetState(m, t, "ABORTED"), ret |-> "false"]
  ELSE UpgradeScan([m EXCEPT !.lock_table_[rid].upgrading_ = 1], t, rid, 1)

\* Unlock: [m, ret, notify]; notify tells whether cv_.notify_all() was called
Unlock(m, t, rid, iso) ==
  LET m1 == IF m.state_[t] = "GROWING" /\ iso = "REPEATABLE_READ"
              THEN SetState(m, t, "SHRINKING") ELSE m
      lock_mode == IF IsSharedLocked(m1, t, rid) THEN "SHARED" ELSE "EXCLUSIVE"
      q == m1.lock_table_[rid].request_queue_
      hit == {i \in 1 .. Len(q) : q[i].txn_id_ = t}
  IN IF hit = {}
       THEN [m |-> m1, ret |-> "false", notify |-> FALSE]
       ELSE LET i == CHOOSE j \in hit : \A k \in hit : j <= k
                m2 == [m1 EXCEPT !.lock_table_[rid].request_queue_ = EraseAt(q, i)]
            IN IF lock_mode = "SHARED"
                 THEN [m |-> [m2 EXCEPT !.shared_lock_set_[t] = @ \ {rid}],
                       ret |-> "true",
                       notify |-> m2.lock_table_[rid].request_queue_ # << >>]
                 ELSE [m |-> [m2 EXCEPT !.exclusive_lock_set_[t] = @ \ {rid}],
                       ret |-> "true", notify |-> TRUE]

LMSet(m) ==
  /\ lock_table_' = m.lock_table_
  /\ txn_state_' = m.state_
  /\ shared_lock_set_' = m.shared_lock_set_
  /\ exclusive_lock_set_' = m.exclusive_lock_set_
  /\ lm_wounds' = m.wounds
  /\ UNCHANGED <<OutsideLM, isolation_level_>>

Idle == [at |-> "idle", rid |-> 0]
\* what a lock call that ran to its return or to cv_.wait leaves of the thread t
AfterCall(t, op, rid, ret) ==
  /\ txn_pc' = [txn_pc EXCEPT ![t] = IF ret = "wait" THEN [at |-> op, rid |-> rid] ELSE Idle]
  /\ lm_last' = [txn |-> t, op |-> op, rid |-> rid, ret |-> ret]

\* a transaction that has ever been SHRINKING
NoteShrinking(m) ==
  lm_shrunk' = lm_shrunk \cup {t \in TxnIds : m.state_[t] = "SHRINKING"}

\* TransactionManager::Begin: the transaction t starts, GROWING, at an isolation level
Begin ==
  \E t \in TxnIds, iso \in IsolationLevels :
    /\ isolation_level_[t] = "NONE"
    /\ isolation_level_' = [isolation_level_ EXCEPT ![t] = iso]
    /\ lm_last' = [txn |-> t, op |-> "Begin", rid |-> 0, ret |-> "true"]
    /\ UNCHANGED <<OutsideLM, lock_table_, txn_state_, shared_lock_set_,
                   exclusive_lock_set_, txn_pc, cv_woken, lm_wounds, lm_shrunk>>

\* a transaction that has begun and whose thread is outside every call
CanCall(t) == isolation_level_[t] # "NONE" /\ txn_pc[t] = Idle

CallLockShared ==
  \E t \in TxnIds, rid \in RIDs :
    LET r == LockShared(LM, t, rid, isolation_level_[t])
    IN /\ CanCall(t)
       /\ LMSet(r.m)
       /\ AfterCall(t, "LockShared", rid, r.ret)
       /\ NoteShrinking(r.m)
       /\ UNCHANGED cv_woken

CallLockExclusive ==
  \E t \in TxnIds, rid \in RIDs :
    LET r == LockExclusive(LM, t, rid, isolation_level_[t])
    IN /\ CanCall(t)
       /\ LMSet(r.m)
       /\ AfterCall(t, "LockExclusive", rid, r.ret)
       /\ NoteShrinking(r.m)
       /\ UNCHANGED cv_woken

\* LockUpgrade is called by a transaction that holds the shared lock
CallLockUpgrade ==
  \E t \in TxnIds, rid \in RIDs :
    LET r == LockUpgrade(LM, t, rid, isolation_level_[t])
    IN /\ CanCall(t)
       /\ IsSharedLocked(LM, t, rid)
       /\ LMSet(r.m)
       /\ AfterCall(t, "LockUpgrade", rid, r.ret)
       /\ NoteShrinking(r.m)
       /\ UNCHANGED cv_woken

CallUnlock ==
  \E t \in TxnIds, rid \in RIDs :
    LET r == Unlock(LM, t, rid, isolation_level_[t])
    IN /\ CanCall(t)
       /\ LMSet(r.m)
       /\ AfterCall(t, "Unlock", rid, r.ret)
       /\ NoteShrinking(r.m)
       /\ cv_woken' = IF r.notify
                        THEN cv_woken \cup {u \in TxnIds : txn_pc[u].at # "idle" /\ txn_pc[u].rid = rid}
                        ELSE cv_woken

\* a thread notified in cv_.wait takes latch_ again and jumps back to ShareCheck
WakeLockShared ==
  \E t \in cv_woken :
    LET rid == txn_pc[t].rid
        r == LockShared(LM, t, rid, isolation_level_[t])
    IN /\ txn_pc[t].at = "LockShared"
       /\ LMSet(r.m)
       /\ AfterCall(t, "LockShared", rid, r.ret)
       /\ NoteShrinking(r.m)
       /\ cv_woken' = cv_woken \ {t}

\* a thread notified in cv_.wait takes latch_ again and jumps back to upgCheck
WakeLockUpgrade ==
  \E t \in cv_woken :
    LET rid == txn_pc[t].rid
        r == LockUpgrade(LM, t, rid, isolation_level_[t])
    IN /\ txn_pc[t].at = "LockUpgrade"
       /\ LMSet(r.m)
       /\ AfterCall(t, "LockUpgrade", rid, r.ret)
       /\ NoteShrinking(r.m)
       /\ cv_woken' = cv_woken \ {t}

LMNext ==
  \/ Begin
  \/ CallLockShared
  \/ CallLockExclusive
  \/ CallLockUpgrade
  \/ CallUnlock
  \/ WakeLockShared
  \/ WakeLockUpgrade

(***************************************************************************)
(* An LRUReplacer of LruPages pages called directly, with any frame ids,   *)
(* next to the reference queue it is compared with.  Where the list and    *)
(* the map have come apart, Victim reads back() of an empty list and Pin   *)
(* erases through an iterator whose node is gone: what such a call does is *)
(* not defined, and every outcome is a step.                               *)
(***************************************************************************)
LruFrames == 0 .. MaxFrame
LRUSize(r) == Cardinality(r.map_frames_)

\* the reference queue
RefUnpin(q, frame_id) == IF frame_id \in SeqSet(q) THEN q ELSE <<frame_id>> \o q
RefPin(q, frame_id) == SeqRemove(q, frame_id)
RefVictim(q) == IF q = << >> THEN [q |-> q, ret |-> -1] ELSE [q |-> PopBack(q), ret |-> Back(q)]

LRUUnpin ==
  \E frame_id \in LruFrames :
    /\ lru_r' = Unpin(lru_r, frame_id, LruPages)
    /\ lru_ref' = RefUnpin(lru_ref, frame_id)
    /\ lru_last' = [op |-> "Unpin", frame_id |-> frame_id, ret |-> -1]
    /\ lru_exp' = -1
    /\ UNCHANGED OutsideLRU

\* Pin of a frame that is not tracked, or whose list node is there
LRUPin ==
  \E frame_id \in LruFrames :
    /\ frame_id \in lru_r.map_frames_ => frame_id \in SeqSet(lru_r.list_unpinned_)
    /\ lru_r' = Pin(lru_r, frame_id)
    /\ lru_ref' = RefPin(lru_ref, frame_id)
    /\ lru_last' = [op |-> "Pin", frame_id |-> frame_id, ret |-> -1]
    /\ lru_exp' = -1
    /\ UNCHANGED OutsideLRU

\* Pin of a tracked frame whose list node was popped: list_unpinned_.erase(p) on a
\* dangling iterator leaves the list as it is or without one of its elements
LRUPinDangling ==
  \E frame_id \in LruFrames :
    /\ frame_id \in lru_r.map_frames_
    /\ frame_id \notin SeqSet(lru_r.list_unpinned_)
    /\ \E l \in {lru_r.list_unpinned_} \cup {SeqRemove(lru_r.list_unpinned_, x) : x \in LruFrames} :
         lru_r' = [list_unpinned_ |-> l, map_frames_ |-> lru_r.map_frames_ \ {frame_id}]
    /\ lru_ref' = RefPin(lru_ref, frame_id)
    /\ lru_last' = [op |-> "Pin", frame_id |-> frame_id, ret |-> -1]
    /\ lru_exp' = -1
    /\ UNCHANGED OutsideLRU

\* Victim with nothing tracked, or with a back element to return
LRUVictim ==
  LET v == Victim(lru_r)
      e == RefVictim(lru_ref)
  IN /\ lru_r.map_frames_ # {} => lru_r.list_unpinned_ # << >>
     /\ lru_r' = v.r
     /\ lru_ref' = e.q
     /\ lru_last' = [op |-> "Victim", frame_id |-> -1, ret |-> v.frame_id]
     /\ lru_exp' = e.ret
     /\ UNCHANGED OutsideLRU

\* Victim with frames in the map and an empty list: back() of an empty list yields
\* any frame id
LRUVictimEmptyList ==
  LET e == RefVictim(lru_ref)
  IN /\ lru_r.map_frames_ # {}
     /\ lru_r.list_unpinned_ = << >>
     /\ \E f \in LruFrames :
          /\ lru_r' = [lru_r EXCEPT !.map_frames_ = @ \ {f}]
          /\ lru_last' = [op |-> "Victim", frame_id |-> -1, ret |-> f]
     /\ lru_ref' = e.q
     /\ lru_exp' = e.ret
     /\ UNCHANGED OutsideLRU

LRUNext ==
  \/ LRUUnpin
  \/ LRUPin
  \/ LRUPinDangling
  \/ LRUVictim
  \/ LRUVictimEmptyList

(***************************************************************************)
(* ParallelBufferPoolManager (parallel_buffer_pool_manager.cpp):           *)
(* NumInstances BufferPoolManagerInstances over one DiskManager.  PP is    *)
(* the record of the pool's fields; a call on instance k runs the          *)
(* instance's method on the instance's fields joined with the disk.        *)
(***************************************************************************)
Instances == 0 .. (NumInstances - 1)
InstanceFrameIds == 0 .. (InstancePoolSize - 1)
PoolPageIds == 0 .. (MaxPoolPageId - 1)

\* BufferPoolManagerInstance(pool_size, num_instances, instance_index, ...)
InstanceNew(k) ==
  [pages_ |-> [f \in InstanceFrameIds |->
                 [page_id_ |-> INVALID_PAGE_ID, is_dirty_ |-> FALSE,
                  pin_count_ |-> 0, data_ |-> 0]],
   page_table_ |-> [p \in PoolPageIds |-> -1],
   free_list_ |-> [i \in 1 .. InstancePoolSize |-> i - 1],
   replacer_ |-> LRUReplacerNew,
   next_page_id_ |-> k,
   pool_size_ |-> InstancePoolSize, num_instances_ |-> NumInstances, instance_index_ |-> k]

PP == [bpm_is_ |-> bpm_is_, disk |-> pp_disk, disk_writes |-> pp_disk_writes,
       last_alloc_idx_ |-> last_alloc_idx_]

\* the fields instance k works on
InstanceOf(pp, k) ==
  [pages_ |-> pp.bpm_is_[k].pages_, page_table_ |-> pp.bpm_is_[k].page_table_,
   free_list_ |-> pp.bpm_is_[k].free_list_, replacer_ |-> pp.bpm_is_[k].replacer_,
   next_page_id_ |-> pp.bpm_is_[k].next_page_id_,
   disk |-> pp.disk, disk_writes |-> pp.disk_writes,
   pool_size_ |-> pp.bpm_is_[k].pool_size_, num_instances_ |-> pp.bpm_is_[k].num_instances_,
   instance_index_ |-> pp.bpm_is_[k].instance_index_]

\* the pool after instance k's call left the fields s
WithInstance(pp, k, s) ==
  [pp EXCEPT !.bpm_is_[k] = [pages_ |-> s.pages_, page_table_ |-> s.page_table_,
                             free_list_ |-> s.free_list_, replacer_ |-> s.replacer_,
                             next_page_id_ |-> s.next_page_id_,
                             pool_size_ |-> s.pool_size_, num_instances_ |-> s.num_instances_,
                             instance_index_ |-> s.instance_index_],
             !.disk = s.disk,
             !.disk_writes = s.disk_writes]

\* GetBufferPoolManager: the index of the instance responsible for page_id
GetBufferPoolManager(page_id) == page_id % NumInstances

\* the do-while of ParallelBufferPoolManager::NewPgImp from start_idx, having probed
\* the instances in probed: [pp, page_id, probed]; page_id = -1 for nullptr
RECURSIVE NewPgProbe(_, _, _)
NewPgProbe(pp, start_idx, probed) ==
  LET k == start_idx % NumInstances
      r == NewPgImp(InstanceOf(pp, k))
      next_idx == (start_idx + 1) % NumInstances
  IN IF r.ok
       THEN [pp |-> [WithInstance(pp, k, r.s) EXCEPT
                       !.last_alloc_idx_ = (pp.last_alloc_idx_ + 1) % NumInstances],
             page_id |-> r.page_id, probed |-> Append(probed, k)]
       ELSE IF next_idx # pp.last_alloc_idx_
              THEN NewPgProbe(pp, next_idx, Append(probed, k))
              ELSE [pp |-> [pp EXCEPT !.last_alloc_idx_ = (pp.last_alloc_idx_ + 1) % NumInstances],
                    page_id |-> -1, probed |-> Append(probed, k)]

\* NewPgImp of the pool that moves the cursor only when a page was found
PPNewPgImp_CursorOnSuccess(pp) ==
  LET r == NewPgProbe(pp, pp.last_alloc_idx_, << >>)
  IN IF r.page_id = -1
       THEN [r EXCEPT !.pp.last_alloc_idx_ = pp.last_alloc_idx_]
       ELSE r

\* ParallelBufferPoolManager::NewPgImp
PPNewPgImp(pp) == NewPgProbe(pp, pp.last_alloc_idx_, << >>)

PPSet(pp) ==
  /\ bpm_is_' = pp.bpm_is_
  /\ pp_disk' = pp.disk
  /\ pp_disk_writes' = pp.disk_writes
  /\ last_alloc_idx_' = pp.last_alloc_idx_
  /\ UNCHANGED OutsidePP

\* the instances a call starting at cursor c probes when it probes n of them
ProbeOrder(c, n) == [i \in 1 .. n |-> (c + i - 1) % NumInstances]

\* page ids some instance's NewPage has returned
PoolAllocated == UNION {SeqSet(pp_alloc[k]) : k \in Instances}

\* NewPage of the pool; page ids are capped at MaxPoolPageId
PPNewPage ==
  LET r == PPNewPgImp(PP)
  IN /\ \A k \in SeqSet(ProbeOrder(last_alloc_idx_, NumInstances)) :
          bpm_is_[k].next_page_id_ < MaxPoolPageId \/ ~NewPgImp(InstanceOf(PP, k)).ok
     /\ PPSet(r.pp)
     /\ pp_alloc' = IF r.page_id # -1
                      THEN [pp_alloc EXCEPT ![Back(r.probed)] = Append(@, r.page_id)]
                      ELSE pp_alloc
     /\ pp_last' = [op |-> "NewPage", start |-> last_alloc_idx_, probed |-> r.probed,
                    ret |-> r.page_id]

PPFetchPage ==
  \E page_id \in PoolAllocated :
    LET k == GetBufferPoolManager(page_id)
        s == InstanceOf(PP, k)
        r == FetchPgImp(s, page_id)
    IN /\ FindPage(s, page_id) # -1 => s.pages_[FindPage(s, page_id)].pin_count_ < MaxPin
       /\ PPSet(WithInstance(PP, k, r.s))
       /\ pp_last' = [op |-> "FetchPage", start |-> last_alloc_idx_, probed |-> <<k>>,
                      ret |-> IF r.frame_id = -1 THEN -1 ELSE page_id]
       /\ UNCHANGED pp_alloc

PPUnpinPage ==
  \E page_id \in PoolAllocated, is_dirty \in BOOLEAN :
    LET k == GetBufferPoolManager(page_id)
        r == UnpinPgImp(InstanceOf(PP, k), page_id, is_dirty)
    IN /\ PPSet(WithInstance(PP, k, r.s))
       /\ pp_last' = [op |-> "UnpinPage", start |-> last_alloc_idx_, probed |-> <<k>>,
                      ret |-> IF r.ret THEN page_id ELSE -1]
       /\ UNCHANGED pp_alloc

PPDeletePage ==
  \E page_id \in PoolAllocated :
    LET k == GetBufferPoolManager(page_id)
        r == DeletePgImp(InstanceOf(PP, k), page_id)
    IN /\ PPSet(WithInstance(PP, k, r.s))
       /\ pp_last' = [op |-> "DeletePage", start |-> last_alloc_idx_, probed |-> <<k>>,
                      ret |-> IF r.ret THEN page_id ELSE -1]
       /\ UNCHANGED pp_alloc

PPNext ==
  \/ PPNewPage
  \/ PPFetchPage
  \/ PPUnpinPage
  \/ PPDeletePage

\* The state after construction: the BufferPoolManagerInstance constructor, the
\* LockManager with an empty lock table and no transaction begun, and the
\* ExtendibleHashTable constructor (the directory page and two bucket pages of
\* local depth 1, global depth 1)
(***************************************************************************)
(* One BufferPoolManagerInstance called by several threads.  NewPgImp,     *)
(* FetchPgImp, DeletePgImp and UnpinPgImp take no latch_: a thread's call  *)
(* is a run of steps between which the other threads run.  The steps are   *)
(* cut where FindFreshPage reads free_list_.front() and pops it, and where *)
(* pin_count_++ reads the count and writes it back; the rest of a call     *)
(* runs in one step.                                                       *)
(***************************************************************************)
Threads == 1 .. NumThreads

\* a thread outside every call that holds no result
IdleThread == [at |-> "idle", op |-> "none", page_id |-> INVALID_PAGE_ID, frame_id |-> -1,
               pin |-> 0, with |-> {}, ret |-> "none", calls |-> 0]
\* thread th outside every call, holding no result
Rest(th) == [IdleThread EXCEPT !.calls = thr[th].calls]
\* thread th may make another call
CanEnter(th) == thr[th].at = "idle" /\ thr[th].calls < MaxCalls

\* the threads inside a call of NewPgImp or FetchPgImp
InCall == {u \in Threads : thr[u].at \notin {"idle", "crashed"}}

BPCSet(s) ==
  /\ pages_' = s.pages_
  /\ page_table_' = s.page_table_
  /\ free_list_' = s.free_list_
  /\ replacer_' = s.replacer_
  /\ next_page_id_' = s.next_page_id_
  /\ disk' = s.disk
  /\ disk_writes' = s.disk_writes
  /\ UNCHANGED OutsideBPC

\* thread th enters a call: the calls in flight now overlap it
Enter(th, op, page_id, frame_id, at) ==
  thr' = [u \in Threads |->
            IF u = th
              THEN [IdleThread EXCEPT !.at = at, !.op = op, !.page_id = page_id,
                                      !.frame_id = frame_id, !.with = InCall \ {th},
                                      !.calls = thr[th].calls + 1]
            ELSE IF u \in InCall
              THEN [thr[u] EXCEPT !.with = @ \cup {th}]
            ELSE thr[u]]

\* thread th returns from its call with the page page_id in frame frame_id
ReturnPage(th, page_id, frame_id) ==
  thr' = [thr EXCEPT ![th] = [Rest(th) EXCEPT !.page_id = page_id, !.frame_id = frame_id,
                                              !.with = thr[th].with, !.ret = "page"]]

\* thread th makes a call of UnpinPgImp or DeletePgImp: it gives up the result it held, and
\* the calls in flight have had another call (marked 0) run in between
Between(th) ==
  thr' = [u \in Threads |->
            IF u = th THEN [IdleThread EXCEPT !.calls = thr[th].calls + 1]
            ELSE IF u \in InCall THEN [thr[u] EXCEPT !.with = @ \cup {0}]
            ELSE thr[u]]

\* pin counts stay below MaxPin: every call in flight may add one
PinRoom == \A f \in FrameIds : pages_[f].pin_count_ + Cardinality(InCall) < MaxPin

\* NewPgImp is entered: frame_id_t frame_id = FindFreshPage();
ThrCallNewPage(th) ==
  /\ CanEnter(th)
  /\ next_page_id_ + Cardinality({u \in InCall : thr[u].op = "NewPage"}) < MaxPageId
  /\ PinRoom
  /\ Enter(th, "NewPage", INVALID_PAGE_ID, -1, "FindFreshPage")
  /\ UNCHANGED <<bpvars, OutsideBPC>>

\* FetchPgImp is entered: FindPage, and for a resident page replacer_->Pin
ThrCallFetchPage(th) ==
  \E page_id \in PageIds :
    LET frame_id == FindPage(BP, page_id)
    IN /\ CanEnter(th)
       /\ page_id < next_page_id_
       /\ PinRoom
       /\ IF frame_id # -1
            THEN /\ Enter(th, "FetchResident", page_id, frame_id, "pin_read")
                 /\ BPCSet([BP EXCEPT !.replacer_ = Pin(@, frame_id)])
            ELSE /\ Enter(th, "FetchMiss", page_id, -1, "FindFreshPage")
                 /\ UNCHANGED <<bpvars, OutsideBPC>>

\* where a call goes on once FindFreshPage has returned a frame
AfterFindFreshPage(th) == IF thr[th].op = "NewPage" THEN "pin_read" ELSE "install"

\* FindFreshPage up to free_list_.front(); with an empty free list the whole victim branch
ThrFindFreshPage(th) ==
  /\ thr[th].at = "FindFreshPage"
  /\ IF free_list_ # << >>
       THEN /\ thr' = [thr EXCEPT ![th].frame_id = Front(free_list_), ![th].at = "pop_front"]
            /\ UNCHANGED <<bpvars, OutsideBPC>>
       ELSE LET ff == FindFreshPage(BP)
            IN /\ BPCSet(ff.s)
               /\ thr' = [thr EXCEPT ![th] =
                            IF ff.frame_id = -1
                              THEN [Rest(th) EXCEPT !.ret = "nullptr"]
                              ELSE [@ EXCEPT !.frame_id = ff.frame_id,
                                             !.at = AfterFindFreshPage(th)]]

\* free_list_.pop_front(); return frame_id;
ThrPopFront(th) ==
  /\ thr[th].at = "pop_front"
  /\ free_list_ # << >>
  /\ free_list_' = PopFront(free_list_)
  /\ thr' = [thr EXCEPT ![th].at = AfterFindFreshPage(th)]
  /\ UNCHANGED <<pages_, page_table_, replacer_, next_page_id_, disk, disk_writes, OutsideBPC>>

\* pop_front() of a list another thread has emptied since front() was read: undefined;
\* the call goes on with the list as it is, or the thread never returns
ThrPopFrontEmpty(th) ==
  /\ thr[th].at = "pop_front"
  /\ free_list_ = << >>
  /\ \E goes_on \in BOOLEAN :
       thr' = [thr EXCEPT ![th].at = IF goes_on THEN AfterFindFreshPage(th) ELSE "crashed"]
  /\ UNCHANGED <<bpvars, OutsideBPC>>

\* FetchPgImp of a page that was not resident: the page table entry, Pin, page_id_
ThrInstall(th) ==
  LET page_id == thr[th].page_id
      frame_id == thr[th].frame_id
  IN /\ thr[th].at = "install"
     /\ BPCSet([BP EXCEPT !.page_table_[page_id] = frame_id,
                          !.replacer_ = Pin(@, frame_id),
                          !.pages_[frame_id].page_id_ = page_id])
     /\ thr' = [thr EXCEPT ![th].at = "pin_read"]

\* pages_[frame_id].pin_count_ ++, the read
ThrPinRead(th) ==
  /\ thr[th].at = "pin_read"
  /\ thr' = [thr EXCEPT ![th].pin = pages_[thr[th].frame_id].pin_count_, ![th].at = "pin_write"]
  /\ UNCHANGED <<bpvars, OutsideBPC>>

\* pages_[frame_id].pin_count_ ++, the write, and the rest of the call up to its return
ThrPinWrite(th) ==
  LET frame_id == thr[th].frame_id
      s == [BP EXCEPT !.pages_[frame_id].pin_count_ = thr[th].pin + 1]
  IN /\ thr[th].at = "pin_write"
     /\ CASE thr[th].op = "NewPage" ->
               LET page_id == s.next_page_id_
                   s1 == AllocatePage(s)
               IN /\ BPCSet([s1 EXCEPT !.pages_[frame_id].page_id_ = page_id,
                                       !.page_table_[page_id] = frame_id,
                                       !.pages_[frame_id].data_ = 0])
                  /\ ReturnPage(th, page_id, frame_id)
          [] thr[th].op = "FetchResident" ->
               /\ BPCSet([s EXCEPT !.pages_[frame_id].is_dirty_ = TRUE])
               /\ ReturnPage(th, thr[th].page_id, frame_id)
          [] OTHER ->
               /\ BPCSet([s EXCEPT !.pages_[frame_id].is_dirty_ = FALSE,
                                   !.pages_[frame_id].data_ = s.disk[thr[th].page_id]])
               /\ ReturnPage(th, thr[th].page_id, frame_id)

\* UnpinPgImp, in one step
ThrUnpinPage(th) ==
  \E page_id \in PageIds, is_dirty \in BOOLEAN :
    /\ CanEnter(th)
    /\ page_id < next_page_id_
    /\ BPCSet(UnpinPgImp(BP, page_id, is_dirty).s)
    /\ Between(th)

\* DeletePgImp, in one step
ThrDeletePage(th) ==
  \E page_id \in PageIds :
    /\ CanEnter(th)
    /\ page_id < next_page_id_
    /\ BPCSet(DeletePgImp(BP, page_id).s)
    /\ Between(th)

BPCNext ==
  \E th \in Threads :
    \/ ThrCallNewPage(th)
    \/ ThrCallFetchPage(th)
    \/ ThrFindFreshPage(th)
    \/ ThrPopFront(th)
    \/ ThrPopFrontEmpty(th)
    \/ ThrInstall(th)
    \/ ThrPinRead(th)
    \/ ThrPinWrite(th)
    \/ ThrUnpinPage(th)
    \/ ThrDeletePage(th)

(***************************************************************************)
(* Threads calling one ExtendibleHashTable at the same time.  Each action  *)
(* is a thread's run from one latch acquisition, which may have to wait,   *)
(* to the next; what a call reads and writes between the acquisition of a  *)
(* bucket latch and its release is one step.  ReaderWriterLatch is not     *)
(* among the sources: a latch is held by any number of readers or by one   *)
(* writer.                                                                 *)
(***************************************************************************)
HCKeys == 0 .. MaxHCKey
LatchNew == [readers |-> {}, writer |-> 0]
CanRLock(l) == l.writer = 0
CanWLock(l) == l.writer = 0 /\ l.readers = {}
RLock(l, th) == [l EXCEPT !.readers = @ \cup {th}]
RUnlock(l, th) == [l EXCEPT !.readers = @ \ {th}]
WLock(l, th) == [l EXCEPT !.writer = th]
\* WUnlock that leaves the latch taken
WUnlock_Keeps(l, th) == l
WUnlock(l, th) == [l EXCEPT !.writer = IF @ = th THEN 0 ELSE @]
Holds(l, th) == th \in l.readers \/ l.writer = th

HCIdle == [at |-> "idle", op |-> "none", key |-> 0, value |-> 0, page |-> 0, i |-> 0]

HCData(h) ==
  /\ dir_page' = h.dir
  /\ bucket_pages' = h.buckets
  /\ ht_next_page' = h.next

\* table_latch_.RLock() and the two fetches that open GetValue, Insert and Remove
HCEnter(th, op, key, value, at) ==
  /\ hc_thr[th] = HCIdle
  /\ hc_calls < MaxHCalls
  /\ CanRLock(table_latch_)
  /\ table_latch_' = RLock(table_latch_, th)
  /\ hc_thr' = [hc_thr EXCEPT ![th] = [at |-> at, op |-> op, key |-> key, value |-> value,
                                        page |-> KeyToPageId(key, dir_page), i |-> 0]]
  /\ hc_calls' = hc_calls + 1
  /\ UNCHANGED <<rwlatch_, dir_page, bucket_pages, ht_next_page, OutsideHC>>

HCGetValue(th) == \E key \in HCKeys : HCEnter(th, "GetValue", key, 0, "RLatch")
HCInsert(th) == \E key \in HCKeys : HCEnter(th, "Insert", key, 0, "WLatch")
HCRemove(th) == \E key \in HCKeys : HCEnter(th, "Remove", key, 0, "WLatch")

\* bucket_page->RLatch() of GetValue
HCRLatch(th) ==
  /\ hc_thr[th].at = "RLatch"
  /\ CanRLock(rwlatch_[hc_thr[th].page])
  /\ rwlatch_' = [rwlatch_ EXCEPT ![hc_thr[th].page] = RLock(@, th)]
  /\ hc_thr' = [hc_thr EXCEPT ![th].at = "body"]
  /\ UNCHANGED <<table_latch_, hc_calls, dir_page, bucket_pages, ht_next_page, OutsideHC>>

\* bucket_page->WLatch() of Insert and Remove
HCWLatch(th) ==
  /\ hc_thr[th].at = "WLatch"
  /\ CanWLock(rwlatch_[hc_thr[th].page])
  /\ rwlatch_' = [rwlatch_ EXCEPT ![hc_thr[th].page] = WLock(@, th)]
  /\ hc_thr' = [hc_thr EXCEPT ![th].at = "body"]
  /\ UNCHANGED <<table_latch_, hc_calls, dir_page, bucket_pages, ht_next_page, OutsideHC>>

\* GetValue from the bucket's GetValue to its return
HCGetValueBody(th) ==
  /\ hc_thr[th].at = "body" /\ hc_thr[th].op = "GetValue"
  /\ rwlatch_' = [rwlatch_ EXCEPT ![hc_thr[th].page] = RUnlock(@, th)]
  /\ table_latch_' = RUnlock(table_latch_, th)
  /\ hc_thr' = [hc_thr EXCEPT ![th] = HCIdle]
  /\ UNCHANGED <<hc_calls, dir_page, bucket_pages, ht_next_page, OutsideHC>>

\* Insert from IsFull() to its return or to its call of SplitInsert
HCInsertBody(th) ==
  LET c == hc_thr[th]
      r == BucketInsert(bucket_pages[c.page], c.key, c.value)
  IN /\ c.at = "body" /\ c.op = "Insert"
     /\ rwlatch_' = [rwlatch_ EXCEPT ![c.page] = WUnlock(@, th)]
     /\ table_latch_' = RUnlock(table_latch_, th)
     /\ IF IsFull(bucket_pages[c.page])
          THEN /\ hc_thr' = [hc_thr EXCEPT ![th].at = "WLock"]
               /\ UNCHANGED bucket_pages
          ELSE /\ hc_thr' = [hc_thr EXCEPT ![th] = HCIdle]
               /\ bucket_pages' = [bucket_pages EXCEPT ![c.page] = r.b]
     /\ UNCHANGED <<hc_calls, dir_page, ht_next_page, OutsideHC>>

\* Remove from the bucket's Remove to its return or to its call of Merge
HCRemoveBody(th) ==
  LET c == hc_thr[th]
      r == BucketRemove(bucket_pages[c.page], c.key, c.value)
  IN /\ c.at = "body" /\ c.op = "Remove"
     /\ rwlatch_' = [rwlatch_ EXCEPT ![c.page] = WUnlock(@, th)]
     /\ table_latch_' = RUnlock(table_latch_, th)
     /\ bucket_pages' = [bucket_pages EXCEPT ![c.page] = r.b]
     /\ hc_thr' = [hc_thr EXCEPT ![th] = IF r.ret /\ IsEmpty(r.b)
                                           THEN [c EXCEPT !.at = "WLock"] ELSE HCIdle]
     /\ UNCHANGED <<hc_calls, dir_page, ht_next_page, OutsideHC>>

\* table_latch_.WLock() of SplitInsert; a call whose splits the bounds have no room for
\* is left out
HCSplitInsertWLock(th) ==
  /\ hc_thr[th].at = "WLock" /\ hc_thr[th].op = "Insert"
  /\ SplitInsert(HT, hc_thr[th].key, hc_thr[th].value).done
  /\ CanWLock(table_latch_)
  /\ table_latch_' = WLock(table_latch_, th)
  /\ hc_thr' = [hc_thr EXCEPT ![th].at = "loop"]
  /\ UNCHANGED <<rwlatch_, hc_calls, dir_page, bucket_pages, ht_next_page, OutsideHC>>

\* table_latch_.WLock() of Merge
HCMergeWLock(th) ==
  /\ hc_thr[th].at = "WLock" /\ hc_thr[th].op = "Remove"
  /\ CanWLock(table_latch_)
  /\ table_latch_' = WLock(table_latch_, th)
  /\ hc_thr' = [hc_thr EXCEPT ![th].at = "loop", ![th].i = 0]
  /\ UNCHANGED <<rwlatch_, hc_calls, dir_page, bucket_pages, ht_next_page, OutsideHC>>

\* bucket_page->WLatch() at the head of a pass of SplitInsert's loop
HCSplitInsertWLatch(th) ==
  LET page == KeyToPageId(hc_thr[th].key, dir_page)
  IN /\ hc_thr[th].at = "loop" /\ hc_thr[th].op = "Insert"
     /\ CanWLock(rwlatch_[page])
     /\ rwlatch_' = [rwlatch_ EXCEPT ![page] = WLock(@, th)]
     /\ hc_thr' = [hc_thr EXCEPT ![th].at = "pass", ![th].page = page]
     /\ UNCHANGED <<table_latch_, hc_calls, dir_page, bucket_pages, ht_next_page, OutsideHC>>

\* the rest of a pass of SplitInsert's loop: a split, or the insert and the return
HCSplitInsertPass(th) ==
  LET c == hc_thr[th]
      r == BucketInsert(bucket_pages[c.page], c.key, c.value)
  IN /\ c.at = "pass" /\ c.op = "Insert"
     /\ rwlatch_' = [rwlatch_ EXCEPT ![c.page] = WUnlock(@, th)]
     /\ IF IsFull(bucket_pages[c.page])
          THEN /\ HCData(SplitBucket(HT, c.key))
               /\ hc_thr' = [hc_thr EXCEPT ![th].at = "loop"]
               /\ UNCHANGED table_latch_
          ELSE /\ bucket_pages' = [bucket_pages EXCEPT ![c.page] = r.b]
               /\ hc_thr' = [hc_thr EXCEPT ![th] = HCIdle]
               /\ table_latch_' = WUnlock(table_latch_, th)
               /\ UNCHANGED <<dir_page, ht_next_page>>
     /\ UNCHANGED <<hc_calls, OutsideHC>>

\* the head of a round of Merge's scan: the end of the scan and the return, or
\* bucket_page->RLatch() on the bucket of slot i
HCMergeRLatch(th) ==
  LET c == hc_thr[th]
      page == GetBucketPageId(dir_page, c.i)
  IN /\ c.at = "loop" /\ c.op = "Remove"
     /\ IF c.i >= Size(dir_page)
          THEN /\ table_latch_' = WUnlock(table_latch_, th)
               /\ hc_thr' = [hc_thr EXCEPT ![th] = HCIdle]
               /\ UNCHANGED rwlatch_
          ELSE /\ CanRLock(rwlatch_[page])
               /\ rwlatch_' = [rwlatch_ EXCEPT ![page] = RLock(@, th)]
               /\ hc_thr' = [hc_thr EXCEPT ![th].at = "pass", ![th].page = page]
               /\ UNCHANGED table_latch_
     /\ UNCHANGED <<hc_calls, dir_page, bucket_pages, ht_next_page, OutsideHC>>

\* the rest of a round of Merge's scan
HCMergePass(th) ==
  LET c == hc_thr[th]
  IN /\ c.at = "pass" /\ c.op = "Remove"
     /\ HCData(MergeSlot(HT, c.i))
     /\ rwlatch_' = [rwlatch_ EXCEPT ![c.page] = RUnlock(@, th)]
     /\ hc_thr' = [hc_thr EXCEPT ![th].at = "loop", ![th].i = c.i + 1]
     /\ UNCHANGED <<table_latch_, hc_calls, OutsideHC>>

HCNext ==
  \E th \in Threads :
    \/ HCGetValue(th)
    \/ HCInsert(th)
    \/ HCRemove(th)
    \/ HCRLatch(th)
    \/ HCWLatch(th)
    \/ HCGetValueBody(th)
    \/ HCInsertBody(th)
    \/ HCRemoveBody(th)
    \/ HCSplitInsertWLock(th)
    \/ HCMergeWLock(th)
    \/ HCSplitInsertWLatch(th)
    \/ HCSplitInsertPass(th)
    \/ HCMergeRLatch(th)
    \/ HCMergePass(th)

(***************************************************************************)
(* A client of one BufferPoolManagerInstance that keeps its pins in        *)
(* balance: it calls UnpinPage on a page only to match a NewPage or a      *)
(* FetchPage of that page that succeeded, and DeletePage and FlushPage     *)
(* only on pages it holds no pin on.                                       *)
(***************************************************************************)
BalSet(s, op, page_id, ret) ==
  /\ pages_' = s.pages_
  /\ page_table_' = s.page_table_
  /\ free_list_' = s.free_list_
  /\ replacer_' = s.replacer_
  /\ next_page_id_' = s.next_page_id_
  /\ disk' = s.disk
  /\ disk_writes' = s.disk_writes
  /\ bal_last' = [op |-> op, page_id |-> page_id, ret |-> ret]
  /\ UNCHANGED OutsideBal

BalNewPage ==
  LET r == NewPgImp(BP)
  IN /\ next_page_id_ < MaxPageId
     /\ BalSet(r.s, "NewPage", r.page_id, r.ok)
     /\ owed' = IF r.ok THEN [owed EXCEPT ![r.page_id] = @ + 1] ELSE owed

BalFetchPage ==
  \E page_id \in PageIds :
    LET r == FetchPgImp(BP, page_id)
    IN /\ page_id < next_page_id_
       /\ owed[page_id] < MaxPin
       /\ BalSet(r.s, "FetchPage", page_id, r.frame_id # -1)
       /\ owed' = IF r.frame_id # -1 THEN [owed EXCEPT ![page_id] = @ + 1] ELSE owed

\* UnpinPage that matches one NewPage or FetchPage of page_id
BalUnpinPage ==
  \E page_id \in PageIds, is_dirty \in BOOLEAN :
    LET r == UnpinPgImp(BP, page_id, is_dirty)
    IN /\ owed[page_id] > 0
       /\ BalSet(r.s, "UnpinPage", page_id, r.ret)
       /\ owed' = [owed EXCEPT ![page_id] = @ - 1]

\* FlushPage of a page the client holds no pin on
BalFlushPage ==
  \E page_id \in PageIds :
    LET r == FlushPgImp(BP, page_id)
    IN /\ page_id < next_page_id_
       /\ owed[page_id] = 0
       /\ BalSet(r.s, "FlushPage", page_id, r.ret)
       /\ UNCHANGED owed

\* DeletePage of a page the client holds no pin on
BalDeletePage ==
  \E page_id \in PageIds :
    LET r == DeletePgImp(BP, page_id)
    IN /\ page_id < next_page_id_
       /\ owed[page_id] = 0
       /\ BalSet(r.s, "DeletePage", page_id, r.ret)
       /\ UNCHANGED owed

BalNext ==
  \/ BalNewPage
  \/ BalFetchPage
  \/ BalUnpinPage
  \/ BalFlushPage
  \/ BalDeletePage

Init ==
  /\ pages_ = [f \in FrameIds |->
                 [page_id_ |-> INVALID_PAGE_ID, is_dirty_ |-> FALSE,
                  pin_count_ |-> 0, data_ |-> 0]]
  /\ page_table_ = [p \in PageIds |-> -1]
  /\ free_list_ = [i \in 1 .. PoolSize |-> i - 1]
  /\ replacer_ = LRUReplacerNew
  /\ next_page_id_ = 0
  /\ disk = [d \in DiskIds |-> 0]
  /\ disk_writes = {}
  /\ dir_page = [global_depth_ |-> 1,
                 local_depths_ |-> [i \in DirSlots |-> IF i < 2 THEN 1 ELSE 0],
                 bucket_page_ids_ |-> [i \in DirSlots |-> IF i < 2 THEN i + 1 ELSE 0]]
  /\ bucket_pages = [p \in BucketPageIds |-> ZeroBucket]
  /\ ht_next_page = FirstSplitPage
  /\ ht_ref = {}
  /\ ht_ops = 0
  /\ lock_table_ = [rid \in 1 .. NumRids |-> [request_queue_ |-> << >>, upgrading_ |-> -1]]
  /\ txn_state_ = [t \in TxnIds |-> "GROWING"]
  /\ isolation_level_ = [t \in TxnIds |-> "NONE"]
  /\ shared_lock_set_ = [t \in TxnIds |-> {}]
  /\ exclusive_lock_set_ = [t \in TxnIds |-> {}]
  /\ txn_pc = [t \in TxnIds |-> [at |-> "idle", rid |-> 0]]
  /\ cv_woken = {}
  /\ lm_last = [txn |-> 0, op |-> "none", rid |-> 0, ret |-> "false"]
  /\ lm_wounds = {}
  /\ lm_shrunk = {}
  /\ lru_r = LRUReplacerNew
  /\ lru_ref = << >>
  /\ lru_last = [op |-> "none", frame_id |-> -1, ret |-> -1]
  /\ lru_exp = -1
  /\ bpm_is_ = [k \in Instances |-> InstanceNew(k)]
  /\ pp_disk = [d \in PoolPageIds \cup InstanceFrameIds |-> 0]
  /\ pp_disk_writes = {}
  /\ last_alloc_idx_ = 0
  /\ pp_alloc = [k \in Instances |-> << >>]
  /\ pp_last = [op |-> "none", start |-> 0, probed |-> << >>, ret |-> -1]
  /\ thr = [th \in Threads |-> IdleThread]
  /\ owed = [p \in PageIds |-> 0]
  /\ bal_last = [op |-> "none", page_id |-> INVALID_PAGE_ID, ret |-> TRUE]
  /\ table_latch_ = LatchNew
  /\ rwlatch_ = [p \in BucketPageIds |-> LatchNew]
  /\ hc_thr = [th \in Threads |-> HCIdle]
  /\ hc_calls = 0

HTSet(h) ==
  /\ dir_page' = h.dir
  /\ bucket_pages' = h.buckets
  /\ ht_next_page' = h.next
  /\ ht_ops' = ht_ops + 1
  /\ UNCHANGED OutsideHT

HTInsert ==
  \E key \in Keys, value \in Values :
    LET r == Insert(HT, key, value)
    IN /\ ht_ops < MaxOps
       /\ r.done
       /\ HTSet(r.h)
       /\ ht_ref' = ht_ref \cup {<<key, value>>}

HTRemove ==
  \E key \in Keys, value \in Values :
    LET r == Remove(HT, key, value)
    IN /\ ht_ops < MaxOps
       /\ HTSet(r.h)
       /\ ht_ref' = ht_ref \ {<<key, value>>}

HTNext ==
  \/ HTInsert
  \/ HTRemove

SpecHT == Init /\ [][HTNext]_vars

SpecLM == Init /\ [][LMNext]_vars

\* the lock manager under fair scheduling: a thread that notify_all has reached in
\* cv_.wait gets latch_ and runs on
WakeOf(t) == (WakeLockShared \/ WakeLockUpgrade) /\ lm_last'.txn = t
SpecLMFair == Init /\ [][LMNext]_vars /\ \A t \in TxnIds : WF_vars(WakeOf(t))

SpecLRU == Init /\ [][LRUNext]_vars

SpecPP == Init /\ [][PPNext]_vars

SpecBP == Init /\ [][BPNext]_vars

SpecBPC == Init /\ [][BPCNext]_vars

SpecBal == Init /\ [][BalNext]_vars

SpecHTC == Init /\ [][HCNext]_vars

(***************************************************************************)
(* Buffer pool claims.                                                     *)
(***************************************************************************)
Resident(p) == page_table_[p] # -1
Tracked(f) == f \in replacer_.map_frames_

\* C2: a frame whose pin count is greater than zero is never chosen as the fresh
\* frame for another page: in every step the page it holds stays in that frame
\* and in the page table.
C2_PinnedFrameNeverVictimized ==
  [][\A f \in FrameIds :
       (pages_[f].pin_count_ > 0 /\ pages_[f].page_id_ # INVALID_PAGE_ID)
         => /\ pages_'[f].page_id_ = pages_[f].page_id_
            /\ page_table_'[pages_[f].page_id_] = f]_vars

\* C4: every DiskManager::WritePage call made by the pool passes the page id of
\* the page whose bytes are written, never the frame id.
C4_WritePageUsesPageId ==
  \A w \in disk_writes : w[1] = w[2]

\* C7: every frame has pin_count >= 0, and a frame is tracked by the replacer
\* if and only if its pin_count is 0 and its page id is not INVALID.
C7_ReplacerTracksExactlyEvictable ==
  \A f \in FrameIds :
    /\ pages_[f].pin_count_ >= 0
    /\ Tracked(f) <=> (pages_[f].pin_count_ = 0 /\ pages_[f].page_id_ # INVALID_PAGE_ID)

\* C8: the page table is a one-to-one map between resident page ids and frames:
\* each entry PageTable[p] = f has frame f holding page p, no two page ids map to
\* the same frame, and every frame with a valid page id has an entry.
C8_PageTableOneToOne ==
  /\ \A p \in PageIds : Resident(p) => pages_[page_table_[p]].page_id_ = p
  /\ \A p, q \in PageIds : (Resident(p) /\ Resident(q) /\ page_table_[p] = page_table_[q]) => p = q
  /\ \A f \in FrameIds : pages_[f].page_id_ # INVALID_PAGE_ID
                           => page_table_[pages_[f].page_id_] = f

\* C8 witness: every page id has been allocated, a frame has been evicted and
\* reused for a later page, and another frame has gone back to the free list.
C8_Witness ==
  /\ next_page_id_ = MaxPageId
  /\ \E p \in PageIds : ~Resident(p)
  /\ \E p \in PageIds : Resident(p) /\ page_table_[p] # p
  /\ free_list_ # << >>

\* C12: NewPage, and FetchPage of a page that is not resident, returns none exactly
\* when the free list is empty and every frame is pinned, and then leaves the page
\* table, the pin counts, the replacer and the next page id as they were.
AllPinnedNoFree == free_list_ = << >> /\ \A f \in FrameIds : pages_[f].pin_count_ > 0
C12_NoneIffNoFreshFrame ==
  /\ (~NewPgImp(BP).ok) <=> AllPinnedNoFree
  /\ (~NewPgImp(BP).ok) => NewPgImp(BP).s = BP
  /\ \A page_id \in PageIds :
       (page_id < next_page_id_ /\ ~Resident(page_id))
         => /\ (FetchPgImp(BP, page_id).frame_id = -1) <=> AllPinnedNoFree
            /\ (FetchPgImp(BP, page_id).frame_id = -1) => FetchPgImp(BP, page_id).s = BP

(***************************************************************************)
(* Extendible hash index claims.                                           *)
(***************************************************************************)
LiveSlots == 0 .. (Size(dir_page) - 1)
BucketOfSlot(i) == bucket_pages[GetBucketPageId(dir_page, i)]

\* C1: against the reference multimap, GetValue(k) returns exactly the values v
\* for which (k, v) was inserted and not removed since.
C1_GetValueMatchesReference ==
  \A key \in Keys :
    SeqSet(GetValue(HT, key)) = {value \in Values : <<key, value>> \in ht_ref}

\* C9: for every directory slot i, every readable key k in the bucket slot i
\* points to satisfies hash(k) & mask(local_depth[i]) = i & mask(local_depth[i]).
C9_KeysPlacedByLocalDepth ==
  \A i \in LiveSlots : \A s \in Slots :
    IsReadable(BucketOfSlot(i), s)
      => LowBits(Hash(KeyAt(BucketOfSlot(i), s)), GetLocalDepth(dir_page, i))
           = LowBits(i, GetLocalDepth(dir_page, i))

\* C10: every slot i has local_depth[i] <= G, and any two slots that point to
\* the same bucket page have the same local depth.
C10_DirectoryIntegrity ==
  /\ \A i \in LiveSlots : GetLocalDepth(dir_page, i) <= GetGlobalDepth(dir_page)
  /\ \A i, j \in LiveSlots :
       GetBucketPageId(dir_page, i) = GetBucketPageId(dir_page, j)
         => GetLocalDepth(dir_page, i) = GetLocalDepth(dir_page, j)

\* C17: Insert(k,v) of a pair that is already present returns false and is rejected
\* before any split: the global depth, the local depths, the bucket page ids and every
\* bucket stay as they are, also when the target bucket is full.
C17_DuplicateInsertChangesNothing ==
  \A key \in Keys, value \in Values :
    value \in SeqSet(GetValue(HT, key))
      => /\ ~Insert(HT, key, value).ret
         /\ Insert(HT, key, value).h.dir = dir_page
         /\ Insert(HT, key, value).h.buckets = bucket_pages

\* C18: every Insert call terminates and returns with the global depth within
\* 0..MAX_DEPTH, also when more pairs than a bucket holds have the same hash: no call
\* reaches a split that takes the global depth past MAX_DEPTH.
C18_InsertTerminates ==
  \A key \in Keys, value \in Values : ~Insert(HT, key, value).overflow

(***************************************************************************)
(* Lock manager claims, checked under SpecLM.                              *)
(***************************************************************************)
LockCalls == {"LockShared", "LockExclusive", "LockUpgrade"}

\* C3: for every RID at most one transaction has it in its exclusive lock set, and then
\* no other transaction has it in its shared or exclusive lock set, a transaction
\* blocked inside LockShared included.
C3_ExclusiveExcludesOthers ==
  \A rid \in RIDs : \A t1 \in TxnIds, t2 \in TxnIds :
    (t1 # t2 /\ rid \in exclusive_lock_set_[t1])
      => (rid \notin shared_lock_set_[t2] /\ rid \notin exclusive_lock_set_[t2])

\* C5: whenever a call made by transaction A set a different transaction B to ABORTED,
\* B is younger than A (B's id is greater), whatever the ids are.
C5_OnlyYoungerWounded ==
  \A w \in lm_wounds : w[1] # w[2] => w[2] > w[1]

C13_VictimMatchesReference ==
  lru_last.op = "Victim" => lru_last.ret = lru_exp

\* C14: the number of tracked frames Size() reports never exceeds the pool_size given
\* at construction.
C14_SizeWithinCapacity ==
  LRUSize(lru_r) <= LruPages

(***************************************************************************)
(* Parallel pool claims, checked under SpecPP.                             *)
(***************************************************************************)
\* C15: every page id NewPage of instance k returns is k modulo the number of instances,
\* the ids of one instance start at k and go up by the number of instances, and the
\* routing rule sends each of them to the instance that created it, which is the only
\* instance that can hold it.
C15_ShardedPageIds ==
  /\ \A k \in Instances : \A i \in 1 .. Len(pp_alloc[k]) :
       /\ pp_alloc[k][i] = k + (i - 1) * NumInstances
       /\ pp_alloc[k][i] % NumInstances = k
       /\ GetBufferPoolManager(pp_alloc[k][i]) = k
  /\ \A k \in Instances : \A page_id \in PoolPageIds :
       bpm_is_[k].page_table_[page_id] # -1 => GetBufferPoolManager(page_id) = k

\* every instance has handed out two page ids, and a page of instance 1 was routed
\* back to it by a later call
C15_Witness ==
  /\ \A k \in Instances : Len(pp_alloc[k]) >= 2
  /\ pp_last.op \in {"FetchPage", "UnpinPage", "DeletePage"}
  /\ pp_last.probed = <<1>>
  /\ pp_last.ret # -1

\* C16: NewPage of the pool probes the instances from the cursor on, each at most once,
\* returns none iff every instance refused, and moves the cursor by exactly one modulo
\* the number of instances, whether or not it succeeded.
C16_RoundRobin ==
  [][pp_last'.op = "NewPage"
       => /\ Len(pp_last'.probed) \in 1 .. NumInstances
          /\ pp_last'.probed = ProbeOrder(last_alloc_idx_, Len(pp_last'.probed))
          /\ (pp_last'.ret = -1) <=> (\A k \in Instances : ~NewPgImp(InstanceOf(PP, k)).ok)
          /\ last_alloc_idx_' = (last_alloc_idx_ + 1) % NumInstances]_vars

\* a NewPage of the pool that found every instance without a fresh frame and returned
\* none, having started at cursor 1
C16_Witness ==
  /\ pp_last.op = "NewPage"
  /\ pp_last.ret = -1
  /\ pp_last.start = 1
  /\ Len(pp_last.probed) = NumInstances
  /\ last_alloc_idx_ = (pp_last.start + 1) % NumInstances

(***************************************************************************)
(* Lock manager: what a granted LockExclusive and LockUpgrade leave.       *)
(***************************************************************************)
\* the transactions with an entry in rid's queue
InQueue(rid) == {lock_table_[rid].request_queue_[i].txn_id_ :
                   i \in 1 .. Len(lock_table_[rid].request_queue_)}
\* the step is a call of op by t on rid that ran to its return or to cv_.wait
CallStep(t, op, rid) ==
  lm_last'.txn = t /\ lm_last'.op = op /\ lm_last'.rid = rid
\* what C19 says a LockExclusive of t on rid leaves: true without blocking, the younger
\* transactions of the queue out of it, without rid in their lock sets and ABORTED, rid in
\* t's exclusive lock set and t GROWING
WoundedAndGranted(t, rid) ==
  /\ lm_last'.ret = "true"
  /\ txn_pc'[t] = Idle
  /\ \A u \in InQueue(rid) \ {t} :
       /\ u \notin InQueue(rid)'
       /\ rid \notin shared_lock_set_'[u]
       /\ rid \notin exclusive_lock_set_'[u]
       /\ txn_state_'[u] = "ABORTED"
  /\ rid \in exclusive_lock_set_'[t]
  /\ txn_state_'[t] = "GROWING"

\* C19 as stated: when a GROWING transaction t calls LockExclusive on rid and every other
\* transaction in rid's queue is younger than t, the call returns true without blocking,
\* every younger transaction is removed from the queue, loses rid from both of its lock
\* sets and is ABORTED, rid is in t's exclusive lock set and t is GROWING.
C19_WoundOnExclusive_AsStated ==
  [][\A t \in TxnIds, rid \in RIDs :
       (/\ CallStep(t, "LockExclusive", rid)
        /\ txn_state_[t] = "GROWING"
        /\ \A u \in InQueue(rid) \ {t} : u > t)
         => WoundedAndGranted(t, rid)]_vars

\* C19, amended: the same, for a transaction t that does not hold rid exclusively already.
C19_WoundOnExclusive ==
  [][\A t \in TxnIds, rid \in RIDs :
       (/\ CallStep(t, "LockExclusive", rid)
        /\ txn_state_[t] = "GROWING"
        /\ rid \notin exclusive_lock_set_[t]
        /\ \A u \in InQueue(rid) \ {t} : u > t)
         => WoundedAndGranted(t, rid)]_vars

\* a LockExclusive of the oldest transaction that has just wounded a younger one
C19_Witness ==
  /\ lm_last.op = "LockExclusive"
  /\ lm_last.txn = 1
  /\ lm_last.ret = "true"
  /\ \E u \in TxnIds : <<1, u>> \in lm_wounds /\ u > 1 /\ txn_state_[u] = "ABORTED"
  /\ lm_last.rid \in exclusive_lock_set_[1]

\* the transactions whose LockUpgrade on rid is in flight: their thread is in cv_.wait
UpgradesInFlight(rid) ==
  {u \in TxnIds : txn_pc[u].at = "LockUpgrade" /\ txn_pc[u].rid = rid}

\* C20: when a GROWING transaction t holds a shared lock on rid, no other upgrade is in
\* flight on rid and no older transaction is in rid's queue, LockUpgrade(t, rid) returns
\* true, t's queue entry has mode EXCLUSIVE, rid leaves t's shared lock set and enters its
\* exclusive lock set, and the queue's upgrading marker is cleared.
C20_UpgradeSuccess ==
  [][\A t \in TxnIds, rid \in RIDs :
       (/\ CallStep(t, "LockUpgrade", rid)
        /\ txn_pc[t] = Idle
        /\ txn_state_[t] = "GROWING"
        /\ rid \in shared_lock_set_[t]
        /\ UpgradesInFlight(rid) \ {t} = {}
        /\ \A u \in InQueue(rid) : u >= t)
         => /\ lm_last'.ret = "true"
            /\ \E i \in 1 .. Len(lock_table_'[rid].request_queue_) :
                 /\ lock_table_'[rid].request_queue_[i].txn_id_ = t
                 /\ lock_table_'[rid].request_queue_[i].lock_mode_ = "EXCLUSIVE"
            /\ rid \notin shared_lock_set_'[t]
            /\ rid \in exclusive_lock_set_'[t]
            /\ lock_table_'[rid].upgrading_ = -1]_vars

(***************************************************************************)
(* Buffer pool instance: calls made at the same time.                      *)
(***************************************************************************)
\* thread th has returned from NewPgImp or FetchPgImp with a page and made no call since
Returned(th) == thr[th].at = "idle" /\ thr[th].ret = "page"
\* the calls a and b returned from ran at the same time, and no other call ran meanwhile
Overlapped(a, b) ==
  /\ a # b
  /\ Returned(a) /\ Returned(b)
  /\ thr[a].with = {b}
  /\ thr[b].with = {a}

\* C11: calls of one instance are atomic to each other: two NewPage/FetchPage calls that
\* ran at the same time for different pages never obtain the same frame, and when they
\* fetched the same page neither increment of its pin count is lost.
C11_ConcurrentCallsAtomic ==
  \A a, b \in Threads :
    Overlapped(a, b)
      => /\ thr[a].page_id # thr[b].page_id => thr[a].frame_id # thr[b].frame_id
         /\ thr[a].page_id = thr[b].page_id
              => /\ thr[a].frame_id = thr[b].frame_id
                 /\ pages_[thr[a].frame_id].pin_count_ >= 2

\* C21: for every RID the upgrading marker is set only while exactly one transaction is
\* inside LockUpgrade on it, and it is clear whenever no transaction is inside LockUpgrade.
C21_UpgradingMarker ==
  \A rid \in RIDs :
    /\ lock_table_[rid].upgrading_ = 1 => Cardinality(UpgradesInFlight(rid)) = 1
    /\ UpgradesInFlight(rid) = {} => lock_table_[rid].upgrading_ = -1

\* C22: a LockShared call by a transaction t at READ_UNCOMMITTED, or in SHRINKING at any
\* isolation level, sets t to ABORTED and returns false, and leaves rid's queue and t's
\* shared lock set as they were.
C22_LockSharedPreconditions ==
  [][\A t \in TxnIds, rid \in RIDs :
       (/\ CallStep(t, "LockShared", rid)
        /\ txn_pc[t] = Idle
        /\ \/ isolation_level_[t] = "READ_UNCOMMITTED"
           \/ txn_state_[t] = "SHRINKING")
         => /\ lm_last'.ret = "false"
            /\ txn_state_'[t] = "ABORTED"
            /\ lock_table_'[rid].request_queue_ = lock_table_[rid].request_queue_
            /\ shared_lock_set_'[t] = shared_lock_set_[t]]_vars

\* a LockShared that has just refused a REPEATABLE_READ transaction that had unlocked,
\* next to a transaction refused at READ_UNCOMMITTED, neither of them wounded
C22_Witness ==
  /\ lm_last.op = "LockShared"
  /\ lm_last.ret = "false"
  /\ lm_last.txn \in lm_shrunk
  /\ isolation_level_[lm_last.txn] = "REPEATABLE_READ"
  /\ txn_state_[lm_last.txn] = "ABORTED"
  /\ lm_last.txn \notin {w[2] : w \in lm_wounds}
  /\ \E u \in TxnIds \ {lm_last.txn} :
       /\ isolation_level_[u] = "READ_UNCOMMITTED"
       /\ txn_state_[u] = "ABORTED"
       /\ u \notin {w[2] : w \in lm_wounds}

\* the transaction t put into SHRINKING, as the lock methods find it
Shrinking(t) == SetState(LM, t, "SHRINKING")
\* the same transaction in GROWING
Growing(t) == SetState(LM, t, "GROWING")

\* C23: LockExclusive of a transaction in SHRINKING sets it to ABORTED and returns false
\* when its isolation level is REPEATABLE_READ; at READ_COMMITTED and READ_UNCOMMITTED it
\* returns what it returns for the transaction in GROWING, and aborts it only if it
\* aborts that one.
C23_ExclusiveDuringShrinking ==
  \A t \in TxnIds, rid \in RIDs :
    (CanCall(t) /\ txn_state_[t] # "ABORTED")
      => LET iso == isolation_level_[t]
             r == LockExclusive(Shrinking(t), t, rid, iso)
             g == LockExclusive(Growing(t), t, rid, iso)
         IN IF iso = "REPEATABLE_READ"
              THEN r.ret = "false" /\ r.m.state_[t] = "ABORTED"
              ELSE /\ r.ret = g.ret
                   /\ (r.m.state_[t] = "ABORTED") = (g.m.state_[t] = "ABORTED")

\* a READ_COMMITTED transaction whose LockExclusive in SHRINKING is granted, next to a
\* REPEATABLE_READ transaction that is in SHRINKING
C23_Witness ==
  \E t, u \in TxnIds, rid \in RIDs :
    /\ CanCall(t) /\ CanCall(u)
    /\ isolation_level_[t] = "READ_COMMITTED"
    /\ txn_state_[t] = "GROWING"
    /\ LockExclusive(Shrinking(t), t, rid, "READ_COMMITTED").ret = "true"
    /\ isolation_level_[u] = "REPEATABLE_READ"
    /\ txn_state_[u] = "SHRINKING"
    /\ LockExclusive(LM, u, rid, "REPEATABLE_READ").ret = "false"

\* C24: Unlock(t, rid) returns true exactly when t has a request in rid's queue; after a
\* true return t has no request in the queue and rid is in neither of t's lock sets; after
\* a false return the queue and t's lock sets are as they were.
C24_Unlock ==
  [][\A t \in TxnIds, rid \in RIDs :
       CallStep(t, "Unlock", rid)
         => /\ (lm_last'.ret = "true") = (t \in InQueue(rid))
            /\ lm_last'.ret = "true"
                 => /\ t \notin InQueue(rid)'
                    /\ rid \notin shared_lock_set_'[t]
                    /\ rid \notin exclusive_lock_set_'[t]
            /\ lm_last'.ret = "false"
                 => /\ lock_table_'[rid].request_queue_ = lock_table_[rid].request_queue_
                    /\ shared_lock_set_'[t] = shared_lock_set_[t]
                    /\ exclusive_lock_set_'[t] = exclusive_lock_set_[t]]_vars

\* the states the lock methods must leave alone
Terminal == {"ABORTED", "COMMITTED"}

\* a transaction that holds no lock and has no request in a queue, as it is after its
\* locks were released
Released(t) ==
  /\ shared_lock_set_[t] = {}
  /\ exclusive_lock_set_[t] = {}
  /\ \A rid \in RIDs : t \notin InQueue(rid)
\* the transaction t after it has committed, as the lock methods find it
Committed(t) == SetState(LM, t, "COMMITTED")
\* no lock method called by a committed transaction t changes its state
CommittedStays(t) ==
  \A rid \in RIDs :
    LET iso == isolation_level_[t]
    IN /\ LockShared(Committed(t), t, rid, iso).m.state_[t] = "COMMITTED"
       /\ LockExclusive(Committed(t), t, rid, iso).m.state_[t] = "COMMITTED"
       /\ Unlock(Committed(t), t, rid, iso).m.state_[t] = "COMMITTED"

\* C25: once a transaction's state is ABORTED or COMMITTED, no LockShared, LockExclusive,
\* LockUpgrade or Unlock call, by it or by another transaction, changes its state: no
\* step changes a terminal state, and a call by a transaction that has committed and
\* released its locks leaves it COMMITTED.
C25_TerminalStates ==
  /\ [][\A t \in TxnIds : txn_state_[t] \in Terminal => txn_state_'[t] = txn_state_[t]]_vars
  /\ [](\A t \in TxnIds : (CanCall(t) /\ Released(t)) => CommittedStays(t))

(***************************************************************************)
(* Buffer pool instance: UnpinPage, FlushPage and DeletePage.              *)
(***************************************************************************)
\* C26: a successful UnpinPage(page_id, is_dirty) leaves the frame's dirty bit at
\* (old dirty bit OR is_dirty).
C26_UnpinKeepsDirty ==
  \A page_id \in PageIds, is_dirty \in BOOLEAN :
    LET frame_id == FindPage(BP, page_id)
        r == UnpinPgImp(BP, page_id, is_dirty)
    IN r.ret => r.s.pages_[frame_id].is_dirty_ = (pages_[frame_id].is_dirty_ \/ is_dirty)

\* C27: UnpinPage performs no disk write, and when FindFreshPage takes as victim a frame
\* that holds a dirty page, that eviction writes the page once, under its page id.
C27_DirtyEvictionWritesOnce ==
  /\ \A page_id \in PageIds, is_dirty \in BOOLEAN :
       LET r == UnpinPgImp(BP, page_id, is_dirty)
       IN r.s.disk = disk /\ r.s.disk_writes = disk_writes
  /\ LET v == Victim(replacer_)
         ff == FindFreshPage(BP)
     IN (/\ free_list_ = << >>
         /\ v.ok
         /\ pages_[v.frame_id].page_id_ # INVALID_PAGE_ID
         /\ pages_[v.frame_id].is_dirty_)
          => LET page_id == pages_[v.frame_id].page_id_
             IN /\ <<page_id, page_id>> \in ff.s.disk_writes
                /\ ff.s.disk[page_id] = pages_[v.frame_id].data_

\* C28: FlushPage(page_id) returns true exactly when the page is resident; for a resident
\* page it leaves the dirty bit clear and the disk copy of the page equal to the frame's
\* bytes; for a page that is not resident it writes nothing.
C28_FlushPage ==
  \A page_id \in PageIds :
    LET frame_id == FindPage(BP, page_id)
        r == FlushPgImp(BP, page_id)
    IN /\ r.ret = (frame_id # -1)
       /\ frame_id # -1
            => /\ ~r.s.pages_[frame_id].is_dirty_
               /\ r.s.disk[page_id] = pages_[frame_id].data_
       /\ frame_id = -1
            => r.s.disk = disk /\ r.s.disk_writes = disk_writes

\* C29: DeletePage(page_id) returns true when the page is not resident; returns false and
\* leaves the page table, the frames, the free list and the replacer as they are when the
\* page is resident and pinned; otherwise returns true with the page out of the page
\* table and its frame zeroed, not dirty, INVALID_PAGE_ID and appended to the free list.
C29_DeletePage ==
  \A page_id \in PageIds :
    LET frame_id == FindPage(BP, page_id)
        r == DeletePgImp(BP, page_id)
    IN IF frame_id = -1 THEN r.ret
       ELSE IF pages_[frame_id].pin_count_ > 0
         THEN /\ ~r.ret
              /\ r.s.page_table_ = page_table_
              /\ r.s.pages_ = pages_
              /\ r.s.free_list_ = free_list_
              /\ r.s.replacer_ = replacer_
         ELSE /\ r.ret
              /\ r.s.page_table_[page_id] = -1
              /\ r.s.pages_[frame_id].data_ = 0
              /\ ~r.s.pages_[frame_id].is_dirty_
              /\ r.s.pages_[frame_id].page_id_ = INVALID_PAGE_ID
              /\ r.s.free_list_ = Append(free_list_, frame_id)

\* a page has been deleted: frame 0, the first frame handed out, is back in the free
\* list behind frame 1, marked INVALID_PAGE_ID, and its page is out of the page table
C29_Witness ==
  /\ free_list_ = <<1, 0>>
  /\ next_page_id_ > 0
  /\ pages_[0].page_id_ = INVALID_PAGE_ID
  /\ \A page_id \in PageIds : page_table_[page_id] # 0

(***************************************************************************)
(* Extendible hash table: the merge a Remove makes.                        *)
(***************************************************************************)
\* Remove(key, value) empties key's bucket, whose slot has a local depth above 1 and a
\* split image of the same local depth
MergeCase(key, value) ==
  LET i == KeyToDirectoryIndex(key, dir_page)
      bucket_page_id == GetBucketPageId(dir_page, i)
      r == BucketRemove(bucket_pages[bucket_page_id], key, value)
  IN /\ r.ret
     /\ IsEmpty(r.b)
     /\ GetLocalDepth(dir_page, i) > 1
     /\ GetLocalDepth(dir_page, GetSplitImageIndex(dir_page, i)) = GetLocalDepth(dir_page, i)

\* what C30 says Remove(key, value) leaves in the merge case, read on the slots the
\* directory still has
Merged(key, value) ==
  LET i == KeyToDirectoryIndex(key, dir_page)
      L == GetLocalDepth(dir_page, i)
      image == GetSplitImageIndex(dir_page, i)
      bucket_page_id == GetBucketPageId(dir_page, i)
      image_page_id == GetBucketPageId(dir_page, image)
      d == Remove(HT, key, value).h.dir
      live == 0 .. (Size(d) - 1)
  IN /\ \A j \in live :
          GetBucketPageId(dir_page, j) \in {bucket_page_id, image_page_id}
            => /\ GetBucketPageId(d, j) = image_page_id
               /\ GetLocalDepth(d, j) = L - 1
     /\ (\A j \in live : GetLocalDepth(d, j) < GetGlobalDepth(dir_page))
          => GetGlobalDepth(d) = GetGlobalDepth(dir_page) - 1

MergedOrFurther(key, value) ==
  LET i == KeyToDirectoryIndex(key, dir_page)
      L == GetLocalDepth(dir_page, i)
      image == GetSplitImageIndex(dir_page, i)
      bucket_page_id == GetBucketPageId(dir_page, i)
      image_page_id == GetBucketPageId(dir_page, image)
      d == Remove(HT, key, value).h.dir
      live == 0 .. (Size(d) - 1)
      both == {j \in live : GetBucketPageId(dir_page, j) \in {bucket_page_id, image_page_id}}
  IN /\ \A j, k \in both : /\ GetBucketPageId(d, j) = GetBucketPageId(d, k)
                           /\ GetLocalDepth(d, j) = GetLocalDepth(d, k)
     /\ \A j \in both : /\ GetLocalDepth(d, j) <= L - 1
                        /\ GetBucketPageId(d, j) # image_page_id
                             => IsEmpty(bucket_pages[image_page_id])
     /\ GetGlobalDepth(d) <= GetGlobalDepth(dir_page)
     /\ ~CanShrink(d)

C33_FreeListInvariant ==
  /\ \A f \in FrameIds : (pages_[f].page_id_ = INVALID_PAGE_ID) = (f \in SeqSet(free_list_))
  /\ \A i, j \in 1 .. Len(free_list_) : free_list_[i] = free_list_[j] => i = j

\* C34: FetchPage of a resident page adds one to the pin count and takes the frame out
\* of the replacer, and leaves the frame's page id, bytes and dirty flag as they were.
C34_FetchResidentOnlyPins ==
  \A page_id \in PageIds :
    LET frame_id == FindPage(BP, page_id)
        r == FetchPgImp(BP, page_id)
    IN frame_id # -1
         => /\ r.frame_id = frame_id
            /\ r.s.pages_[frame_id].pin_count_ = pages_[frame_id].pin_count_ + 1
            /\ frame_id \notin r.s.replacer_.map_frames_
            /\ r.s.pages_[frame_id].page_id_ = pages_[frame_id].page_id_
            /\ r.s.pages_[frame_id].data_ = pages_[frame_id].data_
            /\ r.s.pages_[frame_id].is_dirty_ = pages_[frame_id].is_dirty_

\* a page has been deleted while another stays resident: frame 0 is back in the free list
\* and frame 1 holds a page
C33_Witness ==
  /\ free_list_ = <<0>>
  /\ pages_[0].page_id_ = INVALID_PAGE_ID
  /\ pages_[1].page_id_ # INVALID_PAGE_ID
  /\ page_table_[pages_[1].page_id_] = 1


(***************************************************************************)
(* Lock manager: the queue entry of an exclusive lock, and who waits for   *)
(* whom.                                                                   *)
(***************************************************************************)
\* C37: after a LockExclusive of t on rid that returned true, t's request in rid's queue
\* carries the mode EXCLUSIVE.
C37_ExclusiveEntryMode ==
  [][\A t \in TxnIds, rid \in RIDs :
       (CallStep(t, "LockExclusive", rid) /\ lm_last'.ret = "true")
         => \E i \in 1 .. Len(lock_table_'[rid].request_queue_) :
              /\ lock_table_'[rid].request_queue_[i].txn_id_ = t
              /\ lock_table_'[rid].request_queue_[i].lock_mode_ = "EXCLUSIVE"]_vars


\* the thread of t is in cv_.wait
Blocked(t) == txn_pc[t].at # "idle"
\* the entries of rid's queue that make a call of op by t wait: LockShared waits at an
\* older transaction that holds rid exclusively, LockUpgrade at any older transaction
Blockers(t, op, rid) ==
  {u \in InQueue(rid) : /\ u < t
                        /\ op = "LockShared" => rid \in exclusive_lock_set_[u]}
\* t is blocked behind u
WaitsBehind(t, u) ==
  Blocked(t) /\ u \in Blockers(t, txn_pc[t].at, txn_pc[t].rid)

C39_ListMatchesMap ==
  /\ lru_r.map_frames_ = SeqSet(lru_r.list_unpinned_)
  /\ \A i, j \in 1 .. Len(lru_r.list_unpinned_) :
       lru_r.list_unpinned_[i] = lru_r.list_unpinned_[j] => i = j
  /\ lru_r.map_frames_ # {} => lru_r.list_unpinned_ # << >>


(***************************************************************************)
(* Buffer pool instance: pins in balance.                                  *)
(***************************************************************************)
\* C32: when every successful NewPage and FetchPage is matched by one UnpinPage of that
\* page id, between any DeletePage and FlushPage calls on unpinned pages, every one of
\* those UnpinPage calls returns true, and once all are matched every frame has pin
\* count 0.
C32_PinBalance ==
  /\ bal_last.op = "UnpinPage" => bal_last.ret
  /\ (\A p \in PageIds : owed[p] = 0) => \A f \in FrameIds : pages_[f].pin_count_ = 0


(***************************************************************************)
(* Lock manager: what becomes of a blocked call.                           *)
(***************************************************************************)
\* the thread of t is in cv_.wait of op on rid
BlockedIn(t, op, rid) == txn_pc[t] = [at |-> op, rid |-> rid]
\* an older transaction's Unlock of rid has just returned true
OlderUnlocked(t, rid) ==
  lm_last.op = "Unlock" /\ lm_last.rid = rid /\ lm_last.ret = "true" /\ lm_last.txn < t
\* some call has wounded t
Wounded(t) == \E u \in TxnIds : <<u, t>> \in lm_wounds
\* the LockUpgrade of t on rid has just returned true with rid exclusively locked
Upgraded(t, rid) ==
  /\ lm_last = [txn |-> t, op |-> "LockUpgrade", rid |-> rid, ret |-> "true"]
  /\ txn_pc[t] = Idle
  /\ rid \in exclusive_lock_set_[t]

\* C35: a transaction t blocked in LockUpgrade on rid behind an older holder returns true,
\* with rid exclusively locked, once the last older holder has called Unlock, unless t is
\* wounded in the meantime.
C35_BlockedUpgradeGranted ==
  \A t \in TxnIds, rid \in RIDs :
    (/\ BlockedIn(t, "LockUpgrade", rid)
     /\ OlderUnlocked(t, rid)
     /\ \A u \in InQueue(rid) : ~(u < t)
     /\ ~Wounded(t))
      ~> (Upgraded(t, rid) \/ Wounded(t))

\* C36: under fair scheduling a transaction t blocked in LockShared on rid behind an older
\* holder returns, true or false, after the holder's Unlock of rid: it does not stay
\* blocked for ever.
C36_BlockedSharedReturns ==
  \A t \in TxnIds, rid \in RIDs :
    (BlockedIn(t, "LockShared", rid) /\ OlderUnlocked(t, rid))
      ~> (txn_pc[t] = Idle)


(***************************************************************************)
(* Extendible hash table: another thread's inserts between the two halves  *)
(* of a Remove.  Remove holds no latch between its RUnlock of the table    *)
(* latch and Merge's WLock, so the calls another thread makes there run as *)
(* they do alone.                                                          *)
(***************************************************************************)
\* the other thread's part: Insert(k2, v2) into the bucket the Remove has emptied, then
\* Insert(k3, v3) that finds this bucket full and splits it: [h, ok]
RacingInserts(rm, k2, v2, k3, v3) ==
  LET i1 == Insert(rm.h, k2, v2)
      i2 == Insert(i1.h, k3, v3)
  IN [h |-> i2.h,
      ok |-> /\ KeyToPageId(k2, rm.h.dir) = rm.bucket_page_id
             /\ i1.done /\ i1.ret
             /\ KeyToPageId(k3, i1.h.dir) = rm.bucket_page_id
             /\ i2.done /\ i2.ret]

\* C40: when a Remove has emptied a bucket and another thread inserts a pair into that
\* bucket and splits it before the Remove's Merge takes the table latch, Merge leaves the
\* bucket in the directory, and GetValue returns every pair the other thread inserted.
C40_RemoveMergeRace ==
  \A key \in Keys, value \in Values :
    LET rm == RemoveUntilMerge(HT, key, value)
    IN rm.merge =>
         \A k2 \in Keys, v2 \in Values, k3 \in Keys, v3 \in Values :
           LET other == RacingInserts(rm, k2, v2, k3, v3)
               after == Merge(other.h)
           IN other.ok =>
                /\ \E i \in 0 .. (Size(after.dir) - 1) :
                     GetBucketPageId(after.dir, i) = rm.bucket_page_id
                /\ v2 \in SeqSet(GetValue(after, k2))
                /\ v3 \in SeqSet(GetValue(after, k3))


(***************************************************************************)
(* Extendible hash table: the latches.                                     *)
(***************************************************************************)
\* the bucket pages whose latch th holds
HeldPages(th) == {p \in BucketPageIds : Holds(rwlatch_[p], th)}
\* the steps of a call that has begun
HCStep(th) ==
  \/ HCRLatch(th) \/ HCWLatch(th)
  \/ HCGetValueBody(th) \/ HCInsertBody(th) \/ HCRemoveBody(th)
  \/ HCSplitInsertWLock(th) \/ HCMergeWLock(th)
  \/ HCSplitInsertWLatch(th) \/ HCSplitInsertPass(th)
  \/ HCMergeRLatch(th) \/ HCMergePass(th)
\* the calls in flight, but for a SplitInsert whose splits the bounds have no room for
HCInFlight ==
  {th \in Threads :
     /\ hc_thr[th].at # "idle"
     /\ ~(/\ hc_thr[th].at = "WLock" /\ hc_thr[th].op = "Insert"
          /\ ~SplitInsert(HT, hc_thr[th].key, hc_thr[th].value).done)}

\* C31: a thread that holds a bucket page latch holds the table latch, which it took
\* first; no thread holds two bucket page latches; a thread outside every call, or between
\* Insert and SplitInsert or Remove and Merge, holds no latch; and while calls are in
\* flight one of them can take its next step: GetValue, Insert with SplitInsert and Remove
\* with Merge never deadlock on the latches.
C31_LatchProtocol ==
  /\ \A th \in Threads : HeldPages(th) # {} => Holds(table_latch_, th)
  /\ \A th \in Threads : Cardinality(HeldPages(th)) <= 1
  /\ \A th \in Threads :
       hc_thr[th].at \in {"idle", "WLock"}
         => HeldPages(th) = {} /\ ~Holds(table_latch_, th)
  /\ HCInFlight # {} => \E th \in HCInFlight : ENABLED HCStep(th)

\* two calls in flight on one bucket: an Insert or a Remove holds the bucket's latch, and
\* the other call, inside the table latch too, has to wait for it
C31_Witness ==
  \E a, b \in Threads :
    /\ a # b
    /\ hc_thr[a].at = "body" /\ hc_thr[a].op \in {"Insert", "Remove"}
    /\ hc_thr[b].at \in {"RLatch", "WLatch"}
    /\ hc_thr[b].page = hc_thr[a].page
    /\ rwlatch_[hc_thr[a].page].writer = a
    /\ table_latch_.readers = {a, b}
    /\ ~ENABLED HCStep(b)

====
